---- MODULE Spec2Model ----
(***************************************************************************)
(* Model of the live-event stream reducer of the NFT appraisal dashboard:  *)
(* the NetworkAnimation component of                                       *)
(* "Web App/nft-appraisal/src/app/ConsensusAnimation.tsx".                 *)
(*                                                                         *)
(* The component keeps five pieces of React state (nodes, connections,     *)
(* logs, stats, currentStage) and one ref (eventSourceRef).  One effect,   *)
(* keyed by [contractAddress, tokenId], opens an EventSource and binds a   *)
(* listener per event type; every listener mutates the state through the   *)
(* setters.  JavaScript is single-threaded, so every listener and every    *)
(* effect run is one atomic action here.                                   *)
(***************************************************************************)
EXTENDS Integers, Sequences, FiniteSets, TLC

(***************************************************************************)
(* Bounds of the model.                                                    *)
(***************************************************************************)
MaxConns == 2          \* EventSource objects created during one run
MaxEvents == 2         \* events dispatched per session under Spec
MaxLogEvents == 21     \* events dispatched per session under SpecLog
MaxClock == 1          \* distinct readings of the wall clock
MaxRenders == 1        \* re-renders with the same pair per session

(***************************************************************************)
(* JavaScript values.  Every value is a record tagged by its type.  A      *)
(* number m * 10^(-e) is kept in decimal, normalised (no trailing zero in  *)
(* the fraction); a string is a sequence of indivisible tokens.            *)
(***************************************************************************)
Undefined == [t |-> "undefined"]
Null == [t |-> "null"]
Num(m, e) == [t |-> "number", m |-> m, e |-> e]
Str(s) == [t |-> "string", s |-> s]
Obj(f) == [t |-> "object", f |-> f]
EmptyObj == Obj(<<>>)

Nullish(v) == v.t \in {"undefined", "null"}

\* JavaScript truthiness: undefined, null, 0 and "" are falsy.
Truthy(v) ==
  CASE v.t = "undefined" -> FALSE
    [] v.t = "null" -> FALSE
    [] v.t = "number" -> v.m # 0
    [] v.t = "string" -> v.s # <<>>
    [] OTHER -> TRUE

\* a || b
Or(a, b) == IF Truthy(a) THEN a ELSE b

\* v.k on a non-nullish value (a missing property reads as undefined)
Get(v, k) == IF v.t = "object" /\ k \in DOMAIN v.f THEN v.f[k] ELSE Undefined

\* v?.k
GetOpt(v, k) == IF Nullish(v) THEN Undefined ELSE Get(v, k)

RECURSIVE Pow10(_)
Pow10(n) == IF n = 0 THEN 1 ELSE 10 * Pow10(n - 1)

\* Number.prototype.toFixed(2): the value in hundredths, rounded half up.
Fixed(c) == [t |-> "fixed", cents |-> c]
ToFixed2(v) ==
  IF v.e <= 2 THEN Fixed(v.m * Pow10(2 - v.e))
  ELSE Fixed((v.m + 5 * Pow10(v.e - 3)) \div Pow10(v.e - 2))

(***************************************************************************)
(* Raw wire payloads.  event.data is a text; JSON.parse either throws on   *)
(* it or yields a value.  A transport-level error event has no data at     *)
(* all, and JSON.parse(undefined) throws as well.                          *)
(***************************************************************************)
NotJson == [json |-> FALSE, value |-> Undefined]
Json(v) == [json |-> TRUE, value |-> v]
Data(f) == Json(Obj([data |-> Obj(f)]))

\* try { JSON.parse(data); data.data ... }: the first statements of every
\* listener throw when the text is not JSON or is the JSON text null.
\* a decoder that lets the JSON text null through (data?.data)
DecodesNull(raw) == raw.json

Decodes(raw) == raw.json /\ ~Nullish(raw.value)
\* data.data of a decoded payload
Inner(raw) == Get(raw.value, "data")

(***************************************************************************)
(* State.                                                                  *)
(***************************************************************************)
VARIABLES
  phase,            \* "rendered" (effect not yet run), "mounted", "unmounted"
  contractAddress,  \* prop; "" stands for an absent value
  tokenId,          \* prop; "" stands for an absent value
  nodes,            \* useState<Node[]>
  connections,      \* useState<Connection[]>
  logs,             \* useState<LogEntry[]>, newest first
  stats,            \* useState<StreamStats>
  currentStage,     \* useState<string>
  eventSourceRef,   \* useRef: index into eventSources, 0 for null
  eventSources,     \* every EventSource created so far: [url, closed]
  cleanup,          \* EventSource captured by the registered cleanup, 0 if none
  now,              \* the wall clock read by new Date()
  appended,         \* history: every entry addLog was called with in this
                    \* session, newest first
  lastStage,        \* history: name carried by the last stage event applied
                    \* in this session
  connectAfter,     \* history: a connect event was applied after that one
  events,           \* history: number of events dispatched in this session
  delivered,        \* history: the event the last step dispatched, if any
  renders           \* history: re-renders since the effect last ran that
                    \* passed the pair it ran with

vars == <<phase, contractAddress, tokenId, nodes, connections, logs, stats,
          currentStage, eventSourceRef, eventSources, cleanup, now,
          appended, lastStage, connectAfter, events, delivered, renders>>

reducerState == <<nodes, connections, stats, logs, currentStage>>

\* an event of a type, dispatched at EventSource c with the text raw as data
Event(type, c, raw) == [type |-> type, target |-> c, data |-> raw]
NoEvent == [type |-> "none"]

NoStage == [t |-> "none"]
InvalidStage == [t |-> "invalid"]

Params == {<<"0xA", "1">>, <<"0xB", "1">>, <<"", "1">>, <<"0xA", "">>}

LogCapacity == 20

InitialNodes ==
  << [id |-> "llm1", x |-> 75, y |-> 50, active |-> FALSE, value |-> Undefined],
     [id |-> "llm2", x |-> 150, y |-> 50, active |-> FALSE, value |-> Undefined],
     [id |-> "llm3", x |-> 225, y |-> 50, active |-> FALSE, value |-> Undefined],
     [id |-> "aggregator", x |-> 150, y |-> 200, active |-> FALSE,
      value |-> Undefined] >>

InitialConnections ==
  << [from |-> "llm1", to |-> "aggregator", active |-> FALSE, value |-> Undefined],
     [from |-> "llm2", to |-> "aggregator", active |-> FALSE, value |-> Undefined],
     [from |-> "llm3", to |-> "aggregator", active |-> FALSE, value |-> Undefined] >>

EmptyStats ==
  [aggregatedPrice |-> Undefined, standardDeviation |-> Undefined,
   confidence |-> Undefined, finalResult |-> Undefined]

Init ==
  /\ phase = "rendered"
  /\ \E p \in Params : contractAddress = p[1] /\ tokenId = p[2]
  /\ nodes = InitialNodes
  /\ connections = InitialConnections
  /\ logs = <<>>
  /\ stats = EmptyStats
  /\ currentStage = Str(<<"idle">>)
  /\ eventSourceRef = 0
  /\ eventSources = <<>>
  /\ cleanup = 0
  /\ now = 0
  /\ appended = <<>>
  /\ lastStage = NoStage
  /\ connectAfter = FALSE
  /\ events = 0
  /\ delivered = NoEvent
  /\ renders = 0

(***************************************************************************)
(* addLog: prepend the entry and keep the first 19 of the previous ones.   *)
(***************************************************************************)
Take(s, n) == SubSeq(s, 1, IF Len(s) < n THEN Len(s) ELSE n)

Entry(message, type) == [message |-> message, type |-> type, timestamp |-> now]
Msg(tmpl, arg) == [tmpl |-> tmpl, arg |-> arg]

\* off by one: prev.slice(0, 20)
addLogSlice20(prev, message, type) == <<Entry(message, type)>> \o Take(prev, 20)

\* an addLog that stamps the entries it keeps anew
addLogRestamping(prev, message, type) ==
  <<Entry(message, type)>>
    \o [i \in DOMAIN Take(prev, 19) |-> [prev[i] EXCEPT !.timestamp = now]]

addLog(prev, message, type) == <<Entry(message, type)>> \o Take(prev, 19)

\* the history kept beside it
Record(message, type) == <<Entry(message, type)>> \o appended

(***************************************************************************)
(* The EventSource: close() marks it closed, and is idempotent.            *)
(***************************************************************************)
\* close() never called
CloseSkipped(srcs, c) == srcs

Close(srcs, c) ==
  IF c = 0 THEN srcs ELSE [srcs EXCEPT ![c].closed = TRUE]

Handles == 1..Len(eventSources)
Live(c) == c \in Handles /\ ~eventSources[c].closed

(***************************************************************************)
(* The effect body (lines 87-357), run with the props ca and tid on the    *)
(* EventSource table srcs and ref value ref left by the cleanup.           *)
(***************************************************************************)
\* a guard that lets one value through alone: !contractAddress && !tokenId
PresentEither(ca, tid) == ca # "" \/ tid # ""

Present(ca, tid) == ca # "" /\ tid # ""

ConnectingMsg(ca, tid) ==
  Msg("Connecting to appraisal stream for ", Str(<<ca, ":", tid, "...">>))

\* setNodes / setConnections of the reset (lines 98-103)
\* the reset forgetting value: undefined
ResetNodesKeepValue(ns) ==
  [i \in DOMAIN ns |-> [ns[i] EXCEPT !.active = FALSE]]

ResetNodes(ns) ==
  [i \in DOMAIN ns |-> [ns[i] EXCEPT !.active = FALSE, !.value = Undefined]]

\* a reset that turns the edges around
ResetConnectionsReversed(cs) ==
  [i \in DOMAIN cs |-> [cs[i] EXCEPT !.from = cs[i].to, !.to = cs[i].from,
                                     !.active = FALSE, !.value = Undefined]]

\* a reset of the edges that forgets active: false
ResetConnectionsKeepActive(cs) ==
  [i \in DOMAIN cs |-> [cs[i] EXCEPT !.value = Undefined]]

ResetConnections(cs) ==
  [i \in DOMAIN cs |-> [cs[i] EXCEPT !.active = FALSE, !.value = Undefined]]

\* an effect that resets the state before it looks at the pair
EffectResettingFirst(ca, tid, srcs, ref) ==
  /\ nodes' = ResetNodes(nodes)
  /\ connections' = ResetConnections(connections)
  /\ stats' = EmptyStats
  /\ logs' = <<>>
  /\ appended' = <<>>
  /\ currentStage' = Str(<<"connecting">>)
  /\ lastStage' = NoStage
  /\ connectAfter' = FALSE
  /\ events' = 0
  /\ IF ~Present(ca, tid)
     THEN /\ eventSources' = srcs
          /\ eventSourceRef' = ref
          /\ cleanup' = 0
     ELSE /\ Len(srcs) < MaxConns
          /\ eventSources' = Append(Close(srcs, ref),
                                    [url |-> <<ca, tid>>, closed |-> FALSE])
          /\ eventSourceRef' = Len(srcs) + 1
          /\ cleanup' = Len(srcs) + 1

Effect(ca, tid, srcs, ref) ==
  IF ~Present(ca, tid)
  THEN /\ eventSources' = srcs
       /\ eventSourceRef' = ref
       /\ cleanup' = 0
       /\ UNCHANGED <<nodes, connections, logs, stats, currentStage,
                      appended, lastStage, connectAfter, events>>
  ELSE /\ Len(srcs) < MaxConns
       /\ nodes' = ResetNodes(nodes)
       /\ connections' = ResetConnections(connections)
       /\ stats' = EmptyStats
       /\ currentStage' = Str(<<"connecting">>)
       /\ logs' = addLog(<<>>, ConnectingMsg(ca, tid), "info")
       /\ appended' = <<Entry(ConnectingMsg(ca, tid), "info")>>
       /\ lastStage' = NoStage
       /\ connectAfter' = FALSE
       /\ events' = 0
       /\ eventSources' = Append(Close(srcs, ref),
                                 [url |-> <<ca, tid>>, closed |-> FALSE])
       /\ eventSourceRef' = Len(srcs) + 1
       /\ cleanup' = Len(srcs) + 1

\* First run of the effect, after the first render.
MountEffect ==
  /\ phase = "rendered"
  /\ phase' = "mounted"
  /\ Effect(contractAddress, tokenId, eventSources, eventSourceRef)
  /\ delivered' = NoEvent
  /\ renders' = 0
  /\ UNCHANGED <<contractAddress, tokenId, now>>

\* The parent re-renders with a different pair: the cleanup of the previous
\* run (lines 359-363), then the effect body with the new props.
ChangeParams(ca, tid) ==
  /\ phase = "mounted"
  /\ <<ca, tid>> # <<contractAddress, tokenId>>
  /\ contractAddress' = ca
  /\ tokenId' = tid
  /\ IF cleanup = 0
     THEN Effect(ca, tid, eventSources, eventSourceRef)
     ELSE Effect(ca, tid, Close(eventSources, cleanup), 0)
  /\ delivered' = NoEvent
  /\ renders' = 0
  /\ UNCHANGED <<phase, now>>

\* an unmount that runs no cleanup
UnmountWithoutCleanup ==
  /\ phase = "mounted"
  /\ phase' = "unmounted"
  /\ cleanup' = 0
  /\ delivered' = NoEvent
  /\ UNCHANGED <<contractAddress, tokenId, nodes, connections, logs, stats,
                 currentStage, eventSourceRef, eventSources, now, appended,
                 lastStage, connectAfter, events, renders>>

\* Unmount: the registered cleanup, if any.
Unmount ==
  /\ phase = "mounted"
  /\ phase' = "unmounted"
  /\ IF cleanup = 0
     THEN UNCHANGED <<eventSources, eventSourceRef>>
     ELSE /\ eventSources' = Close(eventSources, cleanup)
          /\ eventSourceRef' = 0
  /\ cleanup' = 0
  /\ delivered' = NoEvent
  /\ UNCHANGED <<contractAddress, tokenId, nodes, connections, logs, stats,
                 currentStage, now, appended, lastStage, connectAfter, events,
                 renders>>

\* The parent re-renders and passes the pair the effect last ran with: the
\* dependency list [contractAddress, tokenId] (line 364) is unchanged, so
\* neither the cleanup nor the effect body runs.
Rerender ==
  /\ phase = "mounted"
  /\ renders < MaxRenders
  /\ renders' = renders + 1
  /\ delivered' = NoEvent
  /\ UNCHANGED <<phase, contractAddress, tokenId, nodes, connections, logs,
                 stats, currentStage, eventSourceRef, eventSources, cleanup,
                 now, appended, lastStage, connectAfter, events>>

\* Time passes.
Tick ==
  /\ now < MaxClock
  /\ now' = now + 1
  /\ delivered' = NoEvent
  /\ UNCHANGED <<phase, contractAddress, tokenId, nodes, connections, logs,
                 stats, currentStage, eventSourceRef, eventSources, cleanup,
                 appended, lastStage, connectAfter, events, renders>>

(***************************************************************************)
(* Listeners.  Each is bound to one EventSource c and runs whenever an     *)
(* event of its type is dispatched at c.  The transport dispatches only    *)
(* while c is open; nothing in a listener looks at c's state, so an event  *)
(* dispatched at a closed handle runs the listener all the same.           *)
(***************************************************************************)
Bound(c) == phase = "mounted" /\ c \in Handles

ListenerFrame(type, c, raw) ==
  /\ events' = events + 1
  /\ delivered' = Event(type, c, raw)
  /\ UNCHANGED <<phase, contractAddress, tokenId, cleanup, now, renders>>

\* a connect listener that writes the time of day into its message
OnConnectStamped(c) ==
  /\ Bound(c)
  /\ currentStage' = Str(<<"connected">>)
  /\ logs' = addLog(logs, Msg("Connected to appraisal stream at ",
                              Num(now, 0)), "success")
  /\ appended' = Record(Msg("Connected to appraisal stream at ", Num(now, 0)),
                        "success")
  /\ connectAfter' = TRUE
  /\ ListenerFrame("connect", c, NotJson)
  /\ UNCHANGED <<nodes, connections, stats, eventSourceRef, eventSources,
                 lastStage>>

\* "connect" (lines 133-136)
OnConnect(c) ==
  /\ Bound(c)
  /\ currentStage' = Str(<<"connected">>)
  /\ logs' = addLog(logs, Msg("Connected to appraisal stream", Undefined),
                    "success")
  /\ appended' = Record(Msg("Connected to appraisal stream", Undefined),
                        "success")
  /\ connectAfter' = TRUE
  /\ ListenerFrame("connect", c, NotJson)
  /\ UNCHANGED <<nodes, connections, stats, eventSourceRef, eventSources,
                 lastStage>>

\* a process_end listener that only logs
OnProcessEndLeavingOpen(c) ==
  /\ Bound(c)
  /\ logs' = addLog(logs, Msg("Process completed", Undefined), "success")
  /\ appended' = Record(Msg("Process completed", Undefined), "success")
  /\ ListenerFrame("process_end", c, NotJson)
  /\ UNCHANGED <<nodes, connections, stats, currentStage, lastStage,
                 connectAfter, eventSources, eventSourceRef>>

\* a process_end listener that closes and keeps the handle
OnProcessEndKeepingRef(c) ==
  /\ Bound(c)
  /\ logs' = addLog(logs, Msg("Process completed", Undefined), "success")
  /\ appended' = Record(Msg("Process completed", Undefined), "success")
  /\ eventSources' = Close(eventSources, c)
  /\ ListenerFrame("process_end", c, NotJson)
  /\ UNCHANGED <<nodes, connections, stats, currentStage, lastStage,
                 connectAfter, eventSourceRef>>

\* "process_end" (lines 352-356)
OnProcessEnd(c) ==
  /\ Bound(c)
  /\ logs' = addLog(logs, Msg("Process completed", Undefined), "success")
  /\ appended' = Record(Msg("Process completed", Undefined), "success")
  /\ eventSources' = Close(eventSources, c)
  /\ eventSourceRef' = 0
  /\ ListenerFrame("process_end", c, NotJson)
  /\ UNCHANGED <<nodes, connections, stats, currentStage, lastStage,
                 connectAfter>>

\* onerror (lines 127-130) and the "error" listener (lines 339-349).  Both are
\* bound to the event type "error", the onerror attribute first, so an
\* error-typed event (a server-sent error event, or a transport failure,
\* which carries no data) runs one after the other.
\* an error listener that drops the server's message
ErrorListenerMsgUnknown(raw) ==
  IF Decodes(raw)
  THEN Msg("Error: ", Str(<<"Unknown error">>))
  ELSE Msg("An error occurred in the appraisal process", Undefined)

ErrorListenerMsg(raw) ==
  IF Decodes(raw)
  THEN Msg("Error: ", Or(GetOpt(Inner(raw), "message"),
                         Str(<<"Unknown error">>)))
  ELSE Msg("An error occurred in the appraisal process", Undefined)

ConnectionErrorMsg == Msg("Connection error with streaming API", Undefined)

\* an onerror handler that gives the connection up: eventSource.close()
OnErrorClosing(c, raw) ==
  /\ Bound(c)
  /\ logs' = addLog(addLog(logs, ConnectionErrorMsg, "error"),
                    ErrorListenerMsg(raw), "error")
  /\ appended' = <<Entry(ErrorListenerMsg(raw), "error"),
                   Entry(ConnectionErrorMsg, "error")>> \o appended
  /\ eventSources' = Close(eventSources, c)
  /\ eventSourceRef' = 0
  /\ ListenerFrame("error", c, raw)
  /\ UNCHANGED <<nodes, connections, stats, currentStage, lastStage,
                 connectAfter>>

\* an onerror handler that reconnects: close the EventSource, open another
OnErrorRetrying(c, raw) ==
  /\ Bound(c)
  /\ logs' = addLog(addLog(logs, ConnectionErrorMsg, "error"),
                    ErrorListenerMsg(raw), "error")
  /\ appended' = <<Entry(ErrorListenerMsg(raw), "error"),
                   Entry(ConnectionErrorMsg, "error")>> \o appended
  /\ eventSources' = Append(Close(eventSources, c),
                            [url |-> eventSources[c].url, closed |-> FALSE])
  /\ eventSourceRef' = Len(eventSources) + 1
  /\ ListenerFrame("error", c, raw)
  /\ UNCHANGED <<nodes, connections, stats, currentStage, lastStage,
                 connectAfter>>

\* the error listener alone: the onerror attribute never assigned
OnErrorListenerOnly(c, raw) ==
  /\ Bound(c)
  /\ logs' = addLog(logs, ErrorListenerMsg(raw), "error")
  /\ appended' = Record(ErrorListenerMsg(raw), "error")
  /\ ListenerFrame("error", c, raw)
  /\ UNCHANGED <<nodes, connections, stats, currentStage, eventSourceRef,
                 eventSources, lastStage, connectAfter>>

OnError(c, raw) ==
  /\ Bound(c)
  /\ logs' = addLog(addLog(logs, ConnectionErrorMsg, "error"),
                    ErrorListenerMsg(raw), "error")
  /\ appended' = <<Entry(ErrorListenerMsg(raw), "error"),
                   Entry(ConnectionErrorMsg, "error")>> \o appended
  /\ ListenerFrame("error", c, raw)
  /\ UNCHANGED <<nodes, connections, stats, currentStage, eventSourceRef,
                 eventSources, lastStage, connectAfter>>

\* "stage" (lines 139-184)
Includes(s, tok) == \E i \in DOMAIN s : s[i] = tok

\* reading the name one level too high: data.name
StageNameTopLevel(raw) == Or(GetOpt(raw.value, "name"), Str(<<"unknown">>))

\* a name that falls back on the description before "unknown"
StageNameOrDescription(raw) ==
  Or(Or(GetOpt(Inner(raw), "name"), GetOpt(Inner(raw), "description")),
     Str(<<"unknown">>))

StageName(raw) == Or(GetOpt(Inner(raw), "name"), Str(<<"unknown">>))
StageDescription(raw) == Or(GetOpt(Inner(raw), "description"), Str(<<>>))

\* node.id.startsWith("llm")
StartsWithLlm(id) == id \in {"llm1", "llm2", "llm3"}

IsQueryStage(name) ==
  Includes(name.s, "query") \/ name = Str(<<"initial_round">>)
IsAggregationStage(name) ==
  Includes(name.s, "aggregat") \/ name = Str(<<"improvement_round">>)
IsCompleteStage(name) == name = Str(<<"complete">>)

\* an activation policy whose default branch switches every node off
StageNodesDefaultInactive(name, ns) ==
  IF name.t # "string" THEN ns
  ELSE IF IsQueryStage(name)
    THEN [i \in DOMAIN ns |-> [ns[i] EXCEPT !.active = StartsWithLlm(ns[i].id)]]
  ELSE IF IsAggregationStage(name)
    THEN [i \in DOMAIN ns |-> [ns[i] EXCEPT !.active = (ns[i].id = "aggregator")]]
  ELSE IF IsCompleteStage(name)
    THEN [i \in DOMAIN ns |-> [ns[i] EXCEPT !.active = TRUE]]
  ELSE [i \in DOMAIN ns |-> [ns[i] EXCEPT !.active = FALSE]]

\* an activation policy that tries the aggregation rule first
StageNodesAggregationFirst(name, ns) ==
  IF name.t # "string" THEN ns
  ELSE IF IsAggregationStage(name)
    THEN [i \in DOMAIN ns |-> [ns[i] EXCEPT !.active = (ns[i].id = "aggregator")]]
  ELSE IF IsQueryStage(name)
    THEN [i \in DOMAIN ns |-> [ns[i] EXCEPT !.active = StartsWithLlm(ns[i].id)]]
  ELSE IF IsCompleteStage(name)
    THEN [i \in DOMAIN ns |-> [ns[i] EXCEPT !.active = TRUE]]
  ELSE ns

StageNodes(name, ns) ==
  IF name.t # "string" THEN ns  \* stageName.includes throws, caught
  ELSE IF IsQueryStage(name)
    THEN [i \in DOMAIN ns |-> [ns[i] EXCEPT !.active = StartsWithLlm(ns[i].id)]]
  ELSE IF IsAggregationStage(name)
    THEN [i \in DOMAIN ns |-> [ns[i] EXCEPT !.active = (ns[i].id = "aggregator")]]
  ELSE IF IsCompleteStage(name)
    THEN [i \in DOMAIN ns |-> [ns[i] EXCEPT !.active = TRUE]]
  ELSE ns

\* an activation policy that leaves the edges on in a query stage
StageConnectionsKeptOn(name, cs) ==
  IF name.t # "string" THEN cs
  ELSE IF IsQueryStage(name) THEN cs
  ELSE IF IsAggregationStage(name) \/ IsCompleteStage(name)
    THEN [i \in DOMAIN cs |-> [cs[i] EXCEPT !.active = TRUE]]
  ELSE cs

\* an activation policy that gives the edges it switches on a weight
StageConnectionsWeighted(name, cs) ==
  IF name.t # "string" THEN cs
  ELSE IF IsQueryStage(name)
    THEN [i \in DOMAIN cs |-> [cs[i] EXCEPT !.active = FALSE]]
  ELSE IF IsAggregationStage(name) \/ IsCompleteStage(name)
    THEN [i \in DOMAIN cs |-> [cs[i] EXCEPT !.active = TRUE,
                                             !.value = Num(1, 0)]]
  ELSE cs

StageConnections(name, cs) ==
  IF name.t # "string" THEN cs
  ELSE IF IsQueryStage(name)
    THEN [i \in DOMAIN cs |-> [cs[i] EXCEPT !.active = FALSE]]
  ELSE IF IsAggregationStage(name) \/ IsCompleteStage(name)
    THEN [i \in DOMAIN cs |-> [cs[i] EXCEPT !.active = TRUE]]
  ELSE cs

\* the name a stage payload carries, when it carries one
CarriedName(raw) ==
  IF GetOpt(Inner(raw), "name").t = "string" /\ GetOpt(Inner(raw), "name").s # <<>>
  THEN GetOpt(Inner(raw), "name")
  ELSE InvalidStage

OnStage(c, raw) ==
  /\ Bound(c)
  /\ IF ~Decodes(raw)
     THEN UNCHANGED <<nodes, connections, logs, currentStage, appended,
                      lastStage, connectAfter>>
     ELSE /\ currentStage' = StageName(raw)
          /\ logs' = addLog(logs, Msg("Stage: ", Or(StageDescription(raw),
                                                    StageName(raw))), "info")
          /\ appended' = Record(Msg("Stage: ", Or(StageDescription(raw),
                                                  StageName(raw))), "info")
          /\ nodes' = StageNodes(StageName(raw), nodes)
          /\ connections' = StageConnections(StageName(raw), connections)
          /\ lastStage' = CarriedName(raw)
          /\ connectAfter' = FALSE
  /\ ListenerFrame("stage", c, raw)
  /\ UNCHANGED <<stats, eventSourceRef, eventSources>>

\* "model_responses" (lines 187-231).  The responses object is kept as the
\* sequence of its entries in Object.entries order; a response text is a
\* sequence of characters.
Map(entries) == [t |-> "map", entries |-> entries]
Entries(v) == IF v.t = "map" THEN v.entries ELSE <<>>

Digits == {"0", "1", "2", "3", "4", "5", "6", "7", "8", "9"}
DigitVal == ("0" :> 0) @@ ("1" :> 1) @@ ("2" :> 2) @@ ("3" :> 3) @@ ("4" :> 4)
            @@ ("5" :> 5) @@ ("6" :> 6) @@ ("7" :> 7) @@ ("8" :> 8) @@ ("9" :> 9)

\* decimal digits of a natural number, and its last w digits
DigitChar(d) == <<"0", "1", "2", "3", "4", "5", "6", "7", "8", "9">>[d + 1]
RECURSIVE DigitsOf(_)
DigitsOf(n) ==
  IF n < 10 THEN <<DigitChar(n)>>
  ELSE DigitsOf(n \div 10) \o <<DigitChar(n % 10)>>
RECURSIVE LastDigits(_, _)
LastDigits(n, w) ==
  IF w = 0 THEN <<>> ELSE LastDigits(n \div 10, w - 1) \o <<DigitChar(n % 10)>>

\* String(response): a string is itself, a number is printed in decimal,
\* null is "null", an object is "[object Object]"
StringOf(v) ==
  CASE v.t = "string" -> v.s
    [] v.t = "number" ->
         IF v.e = 0 THEN DigitsOf(v.m)
         ELSE DigitsOf(v.m \div Pow10(v.e)) \o <<".">>
                \o LastDigits(v.m % Pow10(v.e), v.e)
    [] v.t = "null" -> <<"n", "u", "l", "l">>
    [] OTHER -> <<"[", "o", "b", "j", "]">>

\* end of the maximal run of digits that starts at i
RECURSIVE DigitsEnd(_, _)
DigitsEnd(s, i) ==
  IF i + 1 <= Len(s) /\ s[i + 1] \in Digits THEN DigitsEnd(s, i + 1) ELSE i

\* responseStr.match(/(\d+(\.\d+)?)/)[0], or <<>> when there is no match
PriceMatch(s) ==
  IF \A i \in DOMAIN s : s[i] \notin Digits THEN <<>>
  ELSE LET first == CHOOSE i \in DOMAIN s :
                      /\ s[i] \in Digits
                      /\ \A j \in 1..(i - 1) : s[j] \notin Digits
           intEnd == DigitsEnd(s, first)
           end == IF /\ intEnd + 2 <= Len(s)
                     /\ s[intEnd + 1] = "."
                     /\ s[intEnd + 2] \in Digits
                  THEN DigitsEnd(s, intEnd + 2)
                  ELSE intEnd
       IN SubSeq(s, first, end)

\* value of a run of digits
RECURSIVE DigitsValue(_)
DigitsValue(d) ==
  IF d = <<>> THEN 0
  ELSE 10 * DigitsValue(SubSeq(d, 1, Len(d) - 1)) + DigitVal[d[Len(d)]]

\* drop trailing zeros of the fraction
RECURSIVE Normal(_, _)
Normal(m, e) ==
  IF e > 0 /\ m % 10 = 0 THEN Normal(m \div 10, e - 1) ELSE Num(m, e)

\* parseFloat of a matched text
ParseFloat(match) ==
  LET dot == {i \in DOMAIN match : match[i] = "."}
  IN IF dot = {} THEN Num(DigitsValue(match), 0)
     ELSE LET d == CHOOSE i \in dot : TRUE
              int == SubSeq(match, 1, d - 1)
              frac == SubSeq(match, d + 1, Len(match))
          IN Normal(DigitsValue(int \o frac), Len(frac))

\* the loop of lines 196-209: prices of the first three responses that hold
\* a number, in entry order; the k-th is nodeUpdates["llm<k>"]
RECURSIVE NodeUpdates(_, _)
NodeUpdates(entries, updates) ==
  IF entries = <<>> THEN updates
  ELSE LET priceMatch == PriceMatch(StringOf(Head(entries).v))
       IN IF priceMatch # <<>> /\ Len(updates) + 1 <= 3
          THEN NodeUpdates(Tail(entries),
                           Append(updates, ParseFloat(priceMatch)))
          ELSE NodeUpdates(Tail(entries), updates)

\* node ids numbered from the right: llm3 takes the first price
LlmIndexReversed(id) ==
  CASE id = "llm1" -> 3 [] id = "llm2" -> 2 [] id = "llm3" -> 1 [] OTHER -> 0

LlmIndex(id) ==
  CASE id = "llm1" -> 1 [] id = "llm2" -> 2 [] id = "llm3" -> 3 [] OTHER -> 0

Responses(raw) == Or(GetOpt(Inner(raw), "responses"), EmptyObj)

ResponsesMsg(raw) ==
  Msg("Received responses from N models", Num(Len(Entries(Responses(raw))), 0))

\* a listener that writes nodeUpdates[node.id] to every node, set or not
OnModelResponsesClearing(c, raw) ==
  /\ Bound(c)
  /\ IF ~Decodes(raw)
     THEN UNCHANGED <<nodes, logs, appended>>
     ELSE LET nodeUpdates == NodeUpdates(Entries(Responses(raw)), <<>>)
          IN /\ nodes' = IF nodeUpdates = <<>> THEN nodes
                         ELSE [i \in DOMAIN nodes |->
                                 [nodes[i] EXCEPT !.value =
                                    IF LlmIndex(nodes[i].id) \in DOMAIN nodeUpdates
                                    THEN nodeUpdates[LlmIndex(nodes[i].id)]
                                    ELSE Undefined]]
             /\ logs' = addLog(logs, ResponsesMsg(raw), "info")
             /\ appended' = Record(ResponsesMsg(raw), "info")
  /\ ListenerFrame("model_responses", c, raw)
  /\ UNCHANGED <<connections, stats, currentStage, eventSourceRef,
                 eventSources, lastStage, connectAfter>>

OnModelResponses(c, raw) ==
  /\ Bound(c)
  /\ IF ~Decodes(raw)
     THEN UNCHANGED <<nodes, logs, appended>>
     ELSE LET nodeUpdates == NodeUpdates(Entries(Responses(raw)), <<>>)
          IN /\ nodes' = [i \in DOMAIN nodes |->
                  IF LlmIndex(nodes[i].id) \in DOMAIN nodeUpdates
                  THEN [nodes[i] EXCEPT
                          !.value = nodeUpdates[LlmIndex(nodes[i].id)]]
                  ELSE nodes[i]]
             /\ logs' = addLog(logs, ResponsesMsg(raw), "info")
             /\ appended' = Record(ResponsesMsg(raw), "info")
  /\ ListenerFrame("model_responses", c, raw)
  /\ UNCHANGED <<connections, stats, currentStage, eventSourceRef,
                 eventSources, lastStage, connectAfter>>

\* "initial_statistics" (lines 234-264) and "final_statistics" (lines
\* 267-297): the same listener but for the text and severity of the entry.
StatsOf(raw) == Or(Inner(raw), EmptyObj)

\* a merge that keeps the price it replaces as the deviation
MergeStatsShifting(prev, s) ==
  [prev EXCEPT !.aggregatedPrice = Get(s, "aggregated_price"),
               !.standardDeviation = prev.aggregatedPrice,
               !.confidence = Get(s, "confidence")]

MergeStats(prev, s) ==
  [prev EXCEPT !.aggregatedPrice = Get(s, "aggregated_price"),
               !.standardDeviation = Get(s, "standard_deviation"),
               !.confidence = Get(s, "confidence")]

\* a statistics listener that also lights the aggregator up
AggregatorValueActivating(ns, price) ==
  IF Truthy(price)
  THEN [i \in DOMAIN ns |->
          IF ns[i].id = "aggregator"
          THEN [ns[i] EXCEPT !.value = price, !.active = TRUE]
          ELSE ns[i]]
  ELSE ns

\* if (stats.aggregated_price) setNodes(...)
AggregatorValue(ns, price) ==
  IF Truthy(price)
  THEN [i \in DOMAIN ns |->
          IF ns[i].id = "aggregator" THEN [ns[i] EXCEPT !.value = price]
          ELSE ns[i]]
  ELSE ns

\* price?.toFixed(2) throws when price is neither nullish nor a number
FormatThrows(price) == ~Nullish(price) /\ price.t # "number"
\* price?.toFixed(2) || "unknown"
Format(price) ==
  IF Nullish(price) THEN Str(<<"unknown">>) ELSE ToFixed2(price)

OnStatistics(c, raw, label, tmpl, type) ==
  /\ Bound(c)
  /\ IF ~Decodes(raw)
     THEN UNCHANGED <<nodes, logs, stats, appended>>
     ELSE LET price == Get(StatsOf(raw), "aggregated_price")
          IN /\ stats' = MergeStats(stats, StatsOf(raw))
             /\ nodes' = AggregatorValue(nodes, price)
             /\ IF FormatThrows(price)
                THEN UNCHANGED <<logs, appended>>
                ELSE /\ logs' = addLog(logs, Msg(tmpl, Format(price)), type)
                     /\ appended' = Record(Msg(tmpl, Format(price)), type)
  /\ ListenerFrame(label, c, raw)
  /\ UNCHANGED <<connections, currentStage, eventSourceRef, eventSources,
                 lastStage, connectAfter>>

OnInitialStatistics(c, raw) ==
  OnStatistics(c, raw, "initial_statistics", "Initial consensus: $", "info")

OnFinalStatistics(c, raw) ==
  OnStatistics(c, raw, "final_statistics", "Final consensus: $", "success")

\* "final_result" (lines 300-317)
OnFinalResult(c, raw) ==
  /\ Bound(c)
  /\ IF ~Decodes(raw)
     THEN UNCHANGED <<logs, stats, appended>>
     ELSE LET result == Or(Inner(raw), EmptyObj)
              price == Get(result, "price")
          IN /\ stats' = [stats EXCEPT !.finalResult = result]
             /\ IF FormatThrows(price)
                THEN UNCHANGED <<logs, appended>>
                ELSE /\ logs' = addLog(logs, Msg("Appraisal complete: $",
                                                 Format(price)), "success")
                     /\ appended' = Record(Msg("Appraisal complete: $",
                                               Format(price)), "success")
  /\ ListenerFrame("final_result", c, raw)
  /\ UNCHANGED <<nodes, connections, currentStage, eventSourceRef,
                 eventSources, lastStage, connectAfter>>

\* "log" (lines 320-336)
LogType(color) ==
  IF color = Str(<<"red">>) THEN "error"
  ELSE IF color = Str(<<"yellow">>) THEN "warning"
  ELSE IF color = Str(<<"green">>) THEN "success"
  ELSE "info"

LogMessage(raw) == Msg("", Or(GetOpt(Inner(raw), "message"), Str(<<>>)))
\* a default colour that is one of the mapped ones
LogColorDefaultRed(raw) == Or(GetOpt(Inner(raw), "color"), Str(<<"red">>))

LogColor(raw) == Or(GetOpt(Inner(raw), "color"), Str(<<"default">>))

OnLog(c, raw) ==
  /\ Bound(c)
  /\ IF ~Decodes(raw)
     THEN UNCHANGED <<logs, appended>>
     ELSE /\ logs' = addLog(logs, LogMessage(raw), LogType(LogColor(raw)))
          /\ appended' = Record(LogMessage(raw), LogType(LogColor(raw)))
  /\ ListenerFrame("log", c, raw)
  /\ UNCHANGED <<nodes, connections, stats, currentStage, eventSourceRef,
                 eventSources, lastStage, connectAfter>>

(***************************************************************************)
(* The render (lines 366-509): the scene as a function of the state.  A    *)
(* JSX guard `v && <text>` draws the element for a truthy v, nothing for   *)
(* undefined, null and "", and the bare number for 0.                      *)
(***************************************************************************)
NoLabel == [t |-> "none"]
BareZero == [t |-> "bare", text |-> <<"0">>]
NaNText == [t |-> "NaN"]

\* nodes.find((n) => n.id === id) finds a node
Resolves(ns, id) == \E i \in DOMAIN ns : ns[i].id = id
FindNode(ns, id) ==
  ns[CHOOSE i \in DOMAIN ns :
       ns[i].id = id /\ \A j \in 1..(i - 1) : ns[j].id # id]

\* a guard that labels an unset value too: (v ?? 0).toFixed(2)
ValueLabelAlways(v) ==
  IF v.t = "number" THEN ToFixed2(v) ELSE ToFixed2(Num(0, 0))

\* {v && <text>{v.toFixed(2)}</text>}
ValueLabel(v) ==
  IF Truthy(v) /\ v.t = "number" THEN ToFixed2(v)
  ELSE IF v.t = "number" THEN BareZero
  ELSE NoLabel
LabelThrows(v) == Truthy(v) /\ v.t # "number"

\* {v !== undefined && <div>${v.toFixed(2)}</div>}
StatRow(v) == IF v.t = "number" THEN ToFixed2(v) ELSE NoLabel
StatRowThrows(v) == v.t \notin {"undefined", "number"}

\* (v * 100).toFixed(0) + "%": the product is a number for every v
Percent(m, e) ==
  [t |-> "percent", pct |-> (200 * m + Pow10(e)) \div (2 * Pow10(e))]
ConfidenceRow(v) ==
  CASE v.t = "undefined" -> NoLabel
    [] v.t = "number" -> Percent(v.m, v.e)
    [] v.t = "null" -> Percent(0, 0)
    [] v.t = "string" /\ \A i \in DOMAIN v.s : v.s[i] \in Digits ->
         Percent(DigitsValue(v.s), 0)
    [] OTHER -> NaNText

\* stats.finalResult?.price
FinalPrice(st) == GetOpt(st.finalResult, "price")

Line(ns, conn) ==
  [from |-> conn.from, to |-> conn.to,
   x1 |-> FindNode(ns, conn.from).x, y1 |-> FindNode(ns, conn.from).y,
   x2 |-> FindNode(ns, conn.to).x, y2 |-> FindNode(ns, conn.to).y,
   active |-> conn.active, label |-> ValueLabel(conn.value)]

Circle(node) ==
  [id |-> node.id, cx |-> node.x, cy |-> node.y, active |-> node.active,
   label |-> ValueLabel(node.value)]

\* the render throws: an edge end that is no node, toFixed on a value that
\* is not a number
RenderThrows(ns, cs, st) ==
  \/ \E i \in DOMAIN cs :
       \/ ~Resolves(ns, cs[i].from)
       \/ ~Resolves(ns, cs[i].to)
       \/ LabelThrows(cs[i].value)
  \/ \E i \in DOMAIN ns : LabelThrows(ns[i].value)
  \/ StatRowThrows(st.aggregatedPrice)
  \/ StatRowThrows(st.standardDeviation)
  \/ StatRowThrows(FinalPrice(st))

Scene(ns, cs, st, lg, stage) ==
  [lines |-> [i \in DOMAIN cs |-> Line(ns, cs[i])],
   circles |-> [i \in DOMAIN ns |-> Circle(ns[i])],
   stage |-> stage,
   rows |-> [price |-> StatRow(st.aggregatedPrice),
             deviation |-> StatRow(st.standardDeviation),
             confidence |-> ConfidenceRow(st.confidence),
             final |-> StatRow(FinalPrice(st))],
   log |-> [i \in DOMAIN lg |-> [message |-> lg[i].message,
                                 type |-> lg[i].type]],
   placeholder |-> (Len(lg) = 0)]

\* a catch-all listener that gives the connection up
OnUnboundClosing(c, label, raw) ==
  /\ Bound(c)
  /\ eventSources' = Close(eventSources, c)
  /\ eventSourceRef' = 0
  /\ ListenerFrame(label, c, raw)
  /\ UNCHANGED <<nodes, connections, logs, stats, currentStage, appended,
                 lastStage, connectAfter>>

\* An event of a type no listener is bound to (the component sets neither
\* onmessage nor onopen): nothing runs.
OnUnbound(c, label, raw) ==
  /\ Bound(c)
  /\ ListenerFrame(label, c, raw)
  /\ UNCHANGED <<nodes, connections, logs, stats, currentStage,
                 eventSourceRef, eventSources, appended, lastStage,
                 connectAfter>>

(***************************************************************************)
(* Payloads the server (or a test harness) sends.                          *)
(***************************************************************************)
Undecodable == {NotJson, Json(Null)}

StagePayloads ==
  Undecodable \cup
  { Data([name |-> Str(<<"initial_round">>)]),
    Data([name |-> Str(<<"complete">>), description |-> Str(<<"Done">>)]),
    Data([name |-> Num(5, 0)]) }

ResponsesPayloads ==
  { NotJson,
    Data([responses |-> Map(<< [k |-> "m1", v |-> Str(<<"4", "2", ".", "5">>)],
                               [k |-> "m2", v |-> Str(<<"n", "o">>)],
                               [k |-> "m3", v |-> Str(<<"1", "7">>)] >>)]) }

StatisticsPayloads ==
  { NotJson,
    Data([aggregated_price |-> Num(1005, 1), confidence |-> Num(8, 1)]),
    Data([standard_deviation |-> Num(3, 0)]),
    Data([aggregated_price |-> Str(<<"1", "2">>)]) }

ResultPayloads ==
  { NotJson,
    Data([price |-> Num(1005, 1)]),
    Data([price |-> Str(<<"1", "2">>)]) }

LogPayloads ==
  { NotJson,
    Data([message |-> Str(<<"m">>), color |-> Str(<<"red">>)]) }

ErrorPayloads ==
  Undecodable \cup
  { Data([message |-> Str(<<"boom">>)]) }

\* room left in the model's bound on the events of a session
Room == events < MaxEvents

Next ==
  \/ MountEffect
  \/ \E p \in Params : ChangeParams(p[1], p[2])
  \/ Unmount
  \/ (Room /\ \E c \in Handles : OnConnect(c))
  \/ (Room /\ \E c \in Handles, raw \in StagePayloads : OnStage(c, raw))
  \/ (Room /\ \E c \in Handles, raw \in ResponsesPayloads :
                OnModelResponses(c, raw))
  \/ (Room /\ \E c \in Handles, raw \in StatisticsPayloads :
                OnInitialStatistics(c, raw))
  \/ (Room /\ \E c \in Handles, raw \in StatisticsPayloads :
                OnFinalStatistics(c, raw))
  \/ (Room /\ \E c \in Handles, raw \in ResultPayloads : OnFinalResult(c, raw))
  \/ (Room /\ \E c \in Handles, raw \in LogPayloads : OnLog(c, raw))
  \/ (Room /\ \E c \in Handles, raw \in ErrorPayloads : OnError(c, raw))
  \/ (Room /\ \E c \in Handles : OnProcessEnd(c))

Spec == Init /\ [][Next]_vars

(***************************************************************************)
(* A long session of one kind of event, with the clock running: the log    *)
(* buffer beyond its capacity.                                             *)
(***************************************************************************)
RoomLog == events < MaxLogEvents

NextLog ==
  \/ MountEffect
  \/ \E p \in Params : ChangeParams(p[1], p[2])
  \/ Tick
  \/ (RoomLog /\ \E c \in Handles : OnConnect(c))

SpecLog == Init /\ [][NextLog]_vars

(***************************************************************************)
(* The ways a session ends and the ways the parent can ask for another:    *)
(* process_end, a transport failure (an error event without data), a       *)
(* render with another pair, a render with the same pair.                  *)
(***************************************************************************)
NextReopen ==
  \/ MountEffect
  \/ \E p \in Params : ChangeParams(p[1], p[2])
  \/ Rerender
  \/ (Room /\ \E c \in Handles : OnConnect(c))
  \/ (Room /\ \E c \in Handles : OnError(c, NotJson))
  \/ (Room /\ \E c \in Handles : OnProcessEnd(c))

SpecReopen == Init /\ [][NextReopen]_vars

(***************************************************************************)
(* Sessions of stage events, over the stage names the activation policy    *)
(* tells apart: each marker, a name containing each keyword, a name        *)
(* containing both keywords, names the policy does not know, no name, a    *)
(* name that is not a string.                                              *)
(***************************************************************************)
StageNames ==
  { Str(<<"initial_round">>), Str(<<"model_", "query">>),
    Str(<<"improvement_round">>), Str(<<"aggregat", "ion">>),
    Str(<<"complete">>), Str(<<"query", "_", "aggregat", "ion">>),
    Str(<<"aggregat", "e_", "query">>),
    Str(<<"custom">>), Str(<<"complete", "d">>), Num(5, 0) }

StageNamePayloads ==
  {NotJson, Data([description |-> Str(<<"no name">>)])}
    \cup {Data([name |-> n]) : n \in StageNames}

\* payloads that decode and carry no name: no data object, an empty one, a
\* name that is null, a name that is the empty string
NamelessPayloads ==
  { Json(Num(5, 0)), Json(EmptyObj), Data(<<>>),
    Data([name |-> Null, description |-> Str(<<"null name">>)]),
    Data([name |-> Str(<<>>)]) }

NextStage ==
  \/ MountEffect
  \/ \E p \in Params : ChangeParams(p[1], p[2])
  \/ (Room /\ \E c \in Handles, raw \in StageNamePayloads \cup NamelessPayloads :
                OnStage(c, raw))

SpecStage == Init /\ [][NextStage]_vars

(***************************************************************************)
(* Sessions of the events that carry prices: model responses with and      *)
(* without a number, more than three of them, a price of zero, a number    *)
(* sent as a JSON number; statistics with a price, without one, with a     *)
(* price of zero.                                                          *)
(***************************************************************************)
Response(k, v) == [k |-> k, v |-> v]

ResponseMaps ==
  { <<Response("m1", Str(<<"4", "2", ".", "5">>)),
      Response("m2", Str(<<"n", "o">>)),
      Response("m3", Str(<<"1", "7">>))>>,
    <<Response("m1", Str(<<"1">>)), Response("m2", Str(<<"2">>)),
      Response("m3", Str(<<"3">>)), Response("m4", Str(<<"4">>))>>,
    <<Response("m1", Str(<<"n", "o">>)), Response("m2", Null)>>,
    <<Response("m1", Str(<<"0">>))>>,
    <<Response("m1", Str(<<"n", "o">>)),
      Response("m2", Str(<<"$", "0", ".", "5", "0", " ", "o", "r", " ", "7">>))>>,
    <<Response("m1", Num(425, 1)), Response("m2", EmptyObj)>>,
    <<>> }

PricePayloads ==
  {NotJson, Data(<<>>)} \cup {Data([responses |-> Map(r)]) : r \in ResponseMaps}

PricedStatistics ==
  { NotJson,
    Data([aggregated_price |-> Num(1005, 1), confidence |-> Num(8, 1)]),
    Data([standard_deviation |-> Num(3, 0)]),
    Data([aggregated_price |-> Num(0, 0), standard_deviation |-> Num(0, 0),
          confidence |-> Num(0, 0)]),
    Data([aggregated_price |-> Num(7, 0)]),
    Data([aggregated_price |-> Str(<<"1", "2">>)]) }

NextValues ==
  \/ MountEffect
  \/ (Room /\ \E c \in Handles, raw \in PricePayloads :
                OnModelResponses(c, raw))
  \/ (Room /\ \E c \in Handles, raw \in PricedStatistics :
                OnInitialStatistics(c, raw))
  \/ (Room /\ \E c \in Handles, raw \in PricedStatistics :
                OnFinalStatistics(c, raw))

SpecValues == Init /\ [][NextValues]_vars

(***************************************************************************)
(* Sessions of the events that write the accumulator, one event longer     *)
(* than the others: an event to build a prior accumulator, then the same   *)
(* payload twice.                                                          *)
(***************************************************************************)
RoomStats == events < MaxEvents + 1

NextStats ==
  \/ MountEffect
  \/ (RoomStats /\ \E c \in Handles, raw \in PricedStatistics :
                     OnInitialStatistics(c, raw))
  \/ (RoomStats /\ \E c \in Handles, raw \in PricedStatistics :
                     OnFinalStatistics(c, raw))
  \/ (RoomStats /\ \E c \in Handles, raw \in ResultPayloads :
                     OnFinalResult(c, raw))

SpecStats == Init /\ [][NextStats]_vars

(***************************************************************************)
(* Sessions of log events, over the colours the listener tells apart:      *)
(* the three it maps, another one, one that differs in case only, the      *)
(* empty string, a number, none.                                           *)
(***************************************************************************)
Colors ==
  { Str(<<"red">>), Str(<<"yellow">>), Str(<<"green">>), Str(<<"blue">>),
    Str(<<"Red">>), Str(<<>>), Num(5, 0) }

ColorPayloads ==
  {NotJson, Data([message |-> Str(<<"plain">>)])}
    \cup {Data([message |-> Str(<<"m">>), color |-> c]) : c \in Colors}

NextColors ==
  \/ MountEffect
  \/ \E p \in Params : ChangeParams(p[1], p[2])
  \/ (Room /\ \E c \in Handles, raw \in ColorPayloads : OnLog(c, raw))

SpecColors == Init /\ [][NextColors]_vars

(***************************************************************************)
(* Sessions in which events of types without a listener arrive among       *)
(* stage and statistics events: the default type "message", the            *)
(* EventSource's own "open", a type the server might add.                  *)
(***************************************************************************)
RecognizedLabels ==
  {"connect", "stage", "model_responses", "initial_statistics",
   "final_statistics", "final_result", "log", "error", "process_end"}

UnboundLabels == {"message", "open", "heartbeat"}

UnboundPayloads == {NotJson, Data([name |-> Str(<<"complete">>)])}

NextLabels ==
  \/ MountEffect
  \/ (Room /\ \E c \in Handles, raw \in StagePayloads : OnStage(c, raw))
  \/ (Room /\ \E c \in Handles, raw \in StatisticsPayloads :
                OnInitialStatistics(c, raw))
  \/ (Room /\ \E c \in Handles, label \in UnboundLabels,
                   raw \in UnboundPayloads : OnUnbound(c, label, raw))

SpecLabels == Init /\ [][NextLabels]_vars

(***************************************************************************)
(* The end-to-end session: connect, stage initial_round, model responses   *)
(* with three prices, initial statistics, stage complete, process_end, in  *)
(* that order on the session's EventSource, while the clock runs and the   *)
(* parent may start the session over with another pair.                    *)
(***************************************************************************)
ThreePrices ==
  { <<Response("m1", Str(<<"4", "2", ".", "5">>)),
      Response("m2", Str(<<"3", "8">>)),
      Response("m3", Str(<<"1", "7">>))>>,
    <<Response("m1", Num(100, 0)), Response("m2", Num(1005, 1)),
      Response("m3", Str(<<"$", "9", "9">>))>> }

ScenarioStatistics ==
  Data([aggregated_price |-> Num(1005, 1), confidence |-> Num(8, 1)])

ScenarioLength == 6

Scenario(c) ==
  \/ events = 0 /\ OnConnect(c)
  \/ events = 1 /\ OnStage(c, Data([name |-> Str(<<"initial_round">>)]))
  \/ events = 2 /\ \E r \in ThreePrices :
                      OnModelResponses(c, Data([responses |-> Map(r)]))
  \/ events = 3 /\ OnInitialStatistics(c, ScenarioStatistics)
  \/ events = 4 /\ OnStage(c, Data([name |-> Str(<<"complete">>)]))
  \/ events = 5 /\ OnProcessEnd(c)

NextScenario ==
  \/ MountEffect
  \/ \E p \in Params : ChangeParams(p[1], p[2])
  \/ Tick
  \/ (cleanup # 0 /\ Scenario(cleanup))

SpecScenario == Init /\ [][NextScenario]_vars

(***************************************************************************)
(* Sessions of malformed events: on every label, text that is not JSON,    *)
(* the JSON texts null and 5, an object without data, with data null,      *)
(* with empty data, and with every field of the wrong type.                *)
(***************************************************************************)
WrongTypes ==
  Data([name |-> Num(5, 0), description |-> Num(5, 0),
        responses |-> Num(5, 0), aggregated_price |-> Str(<<"1", "2">>),
        standard_deviation |-> Str(<<"x">>), confidence |-> Null,
        price |-> Str(<<"1", "2">>), message |-> Num(5, 0),
        color |-> Num(5, 0)])

MalformedPayloads ==
  { NotJson, Json(Null), Json(Num(5, 0)), Json(EmptyObj),
    Json(Obj([data |-> Null])), Data(<<>>), WrongTypes }

NextMalformed ==
  \/ MountEffect
  \/ (Room /\ \E c \in Handles : OnConnect(c))
  \/ (Room /\ \E c \in Handles, raw \in MalformedPayloads : OnStage(c, raw))
  \/ (Room /\ \E c \in Handles, raw \in MalformedPayloads :
                OnModelResponses(c, raw))
  \/ (Room /\ \E c \in Handles, raw \in MalformedPayloads :
                OnInitialStatistics(c, raw))
  \/ (Room /\ \E c \in Handles, raw \in MalformedPayloads :
                OnFinalStatistics(c, raw))
  \/ (Room /\ \E c \in Handles, raw \in MalformedPayloads :
                OnFinalResult(c, raw))
  \/ (Room /\ \E c \in Handles, raw \in MalformedPayloads : OnLog(c, raw))
  \/ (Room /\ \E c \in Handles, raw \in MalformedPayloads : OnError(c, raw))
  \/ (Room /\ \E c \in Handles : OnProcessEnd(c))

SpecMalformed == Init /\ [][NextMalformed]_vars

(***************************************************************************)
(* Sessions of every kind of event, with well-formed payloads and with a   *)
(* stage event that is not JSON, each event at the EventSource of its      *)
(* session: under SpecOrder one session while the clock runs, so that the  *)
(* same events arrive at different times; under SpecSessions one session   *)
(* after another, so that a session ends in every state two events lead    *)
(* to.                                                                     *)
(***************************************************************************)
OrderStages ==
  { NotJson,
    Data([name |-> Str(<<"initial_round">>)]),
    Data([name |-> Str(<<"complete">>), description |-> Str(<<"Done">>)]) }

Ordered(c) ==
  \/ OnConnect(c)
  \/ \E raw \in OrderStages : OnStage(c, raw)
  \/ \E r \in ThreePrices : OnModelResponses(c, Data([responses |-> Map(r)]))
  \/ OnInitialStatistics(c, ScenarioStatistics)
  \/ OnFinalStatistics(c, ScenarioStatistics)
  \/ OnFinalResult(c, Data([price |-> Num(1005, 1)]))
  \/ OnLog(c, Data([message |-> Str(<<"m">>), color |-> Str(<<"red">>)]))
  \/ OnError(c, Data([message |-> Str(<<"boom">>)]))
  \/ OnProcessEnd(c)

NextOrder ==
  \/ MountEffect
  \/ Tick
  \/ (Room /\ cleanup # 0 /\ Ordered(cleanup))

SpecOrder == Init /\ [][NextOrder]_vars

NextSessions ==
  \/ MountEffect
  \/ \E p \in Params : ChangeParams(p[1], p[2])
  \/ (Room /\ cleanup # 0 /\ Ordered(cleanup))

SpecSessions == Init /\ [][NextSessions]_vars

(***************************************************************************)
(* C1.  The log buffer never holds more than 20 entries, and it is always  *)
(* the 20 most recent entries appended in the session, newest first (all   *)
(* of them while fewer than 20 were appended).  Checked under SpecLog,     *)
(* where a session appends more than 20 entries.                           *)
(***************************************************************************)
C1_LogIsLast20 ==
  /\ Len(logs) <= LogCapacity
  /\ logs = Take(appended, LogCapacity)

C1_Witness ==
  /\ Len(appended) > LogCapacity
  /\ Len(logs) = LogCapacity
  /\ logs[1].timestamp > logs[LogCapacity].timestamp

(***************************************************************************)
(* C2.  As claimed: a statistics event overwrites the fields its payload   *)
(* carries and leaves the stored value of every field the payload lacks.   *)
(* The listeners assign all three fields from the payload, so a missing    *)
(* field is stored as undefined.                                           *)
(***************************************************************************)
Carries(s, k) == s.t = "object" /\ k \in DOMAIN s.f

MergedAsClaimed(prev, s, new) ==
  /\ new.aggregatedPrice =
       IF Carries(s, "aggregated_price") THEN Get(s, "aggregated_price")
       ELSE prev.aggregatedPrice
  /\ new.standardDeviation =
       IF Carries(s, "standard_deviation") THEN Get(s, "standard_deviation")
       ELSE prev.standardDeviation
  /\ new.confidence =
       IF Carries(s, "confidence") THEN Get(s, "confidence")
       ELSE prev.confidence

C2_StatsMergePreserves ==
  [][(/\ delivered'.type \in {"initial_statistics", "final_statistics"}
      /\ Decodes(delivered'.data))
       => MergedAsClaimed(stats, StatsOf(delivered'.data), stats')]_vars

(***************************************************************************)
(* C3.  As claimed: once a stage event carrying a name was applied in the  *)
(* session, currentStage is the name carried by the last one applied.      *)
(***************************************************************************)
C3_StageIsLastStageName ==
  lastStage.t = "string" => currentStage = lastStage

(***************************************************************************)
(* C3, amended.  currentStage is the name carried by the last stage event  *)
(* applied unless a connect event was applied after it, and then it is     *)
(* "connected".                                                            *)
(***************************************************************************)
C3_StageIsLastStageNameUnlessConnect ==
  lastStage.t = "string" =>
    currentStage = IF connectAfter THEN Str(<<"connected">>) ELSE lastStage

\* a named stage event followed by a non-stage event other than connect
C3_Witness ==
  /\ lastStage.t = "string"
  /\ ~connectAfter
  /\ Len(logs) >= 3
  /\ logs[2].message.tmpl = "Stage: "
  /\ logs[1].message.tmpl \notin {"Stage: ", "Connected to appraisal stream"}
  /\ currentStage = lastStage

(***************************************************************************)
(* C4.  Every EventSource but the one opened last is closed: at most one   *)
(* is live, and the previous one was closed by the time the next one was   *)
(* created.                                                                *)
(***************************************************************************)
C4_OneLiveConnection ==
  /\ \A c \in Handles : c < Len(eventSources) => eventSources[c].closed
  /\ Cardinality({c \in Handles : Live(c)}) <= 1

\* two sessions were started: the first connection is closed, the second live
C4_Witness ==
  /\ Len(eventSources) >= 2
  /\ eventSources[1].closed
  /\ Live(Len(eventSources))
  /\ eventSourceRef = Len(eventSources)

(***************************************************************************)
(* C5.  As claimed: once a newer session has started, an event dispatched  *)
(* at the EventSource of an older session changes none of nodes,           *)
(* connections, stats, logs and currentStage.                              *)
(***************************************************************************)
C5_OldSessionEventsIgnored ==
  [][(/\ delivered'.type # "none"
      /\ cleanup # 0
      /\ delivered'.target # cleanup
      /\ eventSources[delivered'.target].closed)
       => UNCHANGED reducerState]_vars

(***************************************************************************)
(* C6.  As claimed: after process_end was handled on the session's         *)
(* EventSource (it is closed while the session's cleanup has not run), an  *)
(* event dispatched at that same EventSource changes none of nodes,        *)
(* connections, stats, logs and currentStage.                              *)
(***************************************************************************)
EndedByProcessEnd(c) == c = cleanup /\ eventSources[c].closed

C6_EventsAfterProcessEndIgnored ==
  [][(delivered'.type # "none" /\ EndedByProcessEnd(delivered'.target))
       => UNCHANGED reducerState]_vars

(***************************************************************************)
(* C7.  As claimed: a change to another pair with both values present,     *)
(* while a session is open, closes the session's connection and leaves     *)
(* nodes, connections, stats and logs at their initial values, the log     *)
(* empty, in the step that creates the new connection.                     *)
(***************************************************************************)
MidSessionChange(ca, tid) ==
  /\ Live(eventSourceRef)
  /\ Present(ca, tid)
  /\ ChangeParams(ca, tid)

C7_ChangeResetsToInitial ==
  [][\A p \in Params :
       MidSessionChange(p[1], p[2]) =>
         /\ eventSources'[eventSourceRef].closed
         /\ nodes' = InitialNodes
         /\ connections' = InitialConnections
         /\ stats' = EmptyStats
         /\ logs' = <<>>]_vars

(***************************************************************************)
(* C7, amended.  The same, but for the log: it is reset to hold one entry, *)
(* the "Connecting to appraisal stream" entry of the new session.  The     *)
(* new connection is created in that very step, so none of its events was  *)
(* applied before.                                                         *)
(***************************************************************************)
C7_ChangeResetsToConnecting ==
  [][\A p \in Params :
       MidSessionChange(p[1], p[2]) =>
         /\ eventSources'[eventSourceRef].closed
         /\ Len(eventSources') = Len(eventSources) + 1
         /\ eventSourceRef' = Len(eventSources')
         /\ nodes' = InitialNodes
         /\ connections' = InitialConnections
         /\ stats' = EmptyStats
         /\ Len(logs') = 1
         /\ logs'[1].message = ConnectingMsg(p[1], p[2])
         /\ logs'[1].type = "info"]_vars

\* the second session has just started
C7_Witness ==
  /\ Len(eventSources) = 2
  /\ eventSources[1].closed
  /\ Live(2)
  /\ eventSourceRef = 2
  /\ Len(appended) = 1
  /\ eventSources[1].url # eventSources[2].url

(***************************************************************************)
(* C8.  As claimed: a listener applies all of its event's effects or none  *)
(* of them.  Every listener appends a log entry among its effects, so      *)
(* whenever it changed anything the entry must have been appended.         *)
(***************************************************************************)
C8_AllOrNothing ==
  [][delivered'.type # "none" =>
       \/ UNCHANGED reducerState
       \/ Len(appended') > Len(appended)]_vars

(***************************************************************************)
(* C9.  As claimed: a payload that does not decode, on any label that      *)
(* carries one, appends an entry of severity error, closes nothing and     *)
(* leaves nodes, connections, stats and currentStage as they were.         *)
(***************************************************************************)
PayloadLabels ==
  {"stage", "model_responses", "initial_statistics", "final_statistics",
   "final_result", "log", "error"}

\* the step dispatched an event whose text is not JSON, or is the JSON null
Undecoded ==
  delivered'.type \in PayloadLabels /\ delivered'.data \in Undecodable

AppendsError ==
  /\ Len(appended') > Len(appended)
  /\ logs' # <<>>
  /\ logs'[1].type = "error"

C9_UndecodableLogsError ==
  [][Undecoded =>
       /\ AppendsError
       /\ UNCHANGED <<nodes, connections, stats, currentStage,
                      eventSources>>]_vars

(***************************************************************************)
(* C9, amended.  A payload that does not decode closes nothing and leaves  *)
(* nodes, connections, stats and currentStage as they were; on the error   *)
(* label it appends an entry of severity error, on every other label it    *)
(* leaves the log as it was too.                                           *)
(***************************************************************************)
C9_UndecodableIsSkipped ==
  [][Undecoded =>
       /\ UNCHANGED <<nodes, connections, stats, currentStage, eventSources>>
       /\ IF delivered'.type = "error" THEN AppendsError
          ELSE UNCHANGED logs]_vars

\* an error event without a decodable payload was handled, and the
\* connection is still open
C9_Witness ==
  /\ Len(logs) >= 2
  /\ logs[1].message.tmpl = "An error occurred in the appraisal process"
  /\ logs[1].type = "error"
  /\ Live(eventSourceRef)

(***************************************************************************)
(* C10.  An open EventSource becomes closed only in a process_end step, a  *)
(* change of the identifying parameters or the unmount; no step of the     *)
(* error handlers and no listener step on an undecodable payload closes    *)
(* one.                                                                    *)
(***************************************************************************)
Closes(c) == ~eventSources[c].closed /\ eventSources'[c].closed

C10_ClosedOnlyByEndChangeOrTeardown ==
  [][(\E d \in Handles : Closes(d)) =>
       /\ \/ \E c \in Handles : OnProcessEnd(c)
          \/ \E p \in Params : ChangeParams(p[1], p[2])
          \/ Unmount
       /\ delivered'.type # "error"
       /\ ~Undecoded]_vars

\* a domain error and a transport failure were both handled and the
\* connection is still open
C10_Witness ==
  /\ Live(eventSourceRef)
  /\ \E i \in DOMAIN logs : logs[i].message.tmpl = "Error: "
  /\ \E i \in DOMAIN logs :
       logs[i].message.tmpl = "An error occurred in the appraisal process"

(***************************************************************************)
(* C11.  A transport failure (an error event that carries no data) appends *)
(* log entries of severity error only, the "Connection error with          *)
(* streaming API" entry of onerror among them, leaves nodes, connections,  *)
(* stats and currentStage as they were, and neither closes an EventSource  *)
(* nor creates one.                                                        *)
(***************************************************************************)
TransportFailure == delivered'.type = "error" /\ delivered'.data = NotJson

\* the entries the step appended, newest first
Added == SubSeq(appended', 1, Len(appended') - Len(appended))

C11_TransportFailureOnlyLogs ==
  [][TransportFailure =>
       /\ Added # <<>>
       /\ \A i \in DOMAIN Added : Added[i].type = "error"
       /\ \E i \in DOMAIN Added : Added[i].message = ConnectionErrorMsg
       /\ logs'[1].type = "error"
       /\ UNCHANGED <<nodes, connections, stats, currentStage, eventSources,
                      eventSourceRef>>]_vars

\* a transport failure was handled after a statistics event: the price is
\* still there, the one connection still open
C11_Witness ==
  /\ delivered = Event("error", 1, NotJson)
  /\ Len(logs) >= 3
  /\ logs[2].message = ConnectionErrorMsg
  /\ stats.aggregatedPrice = Num(1005, 1)
  /\ Len(eventSources) = 1
  /\ Live(eventSourceRef)

(***************************************************************************)
(* C12.  As claimed: once the session has ended (process_end was handled,  *)
(* or a transport failure was reported), a render that passes a pair with  *)
(* both values present, be it another pair or the same one, creates a new  *)
(* EventSource, which is then the open one.  The effect re-runs only when  *)
(* the pair differs from the one it last ran with.                         *)
(***************************************************************************)
SessionEnded ==
  \/ cleanup # 0 /\ eventSources[cleanup].closed
  \/ \E i \in DOMAIN appended : appended[i].message = ConnectionErrorMsg

SuppliesPair ==
  \/ renders' > renders
  \/ <<contractAddress', tokenId'>> # <<contractAddress, tokenId>>

C12_SupplyingPairReopens ==
  [][(SessionEnded /\ SuppliesPair /\ Present(contractAddress', tokenId')) =>
       /\ Len(eventSources') = Len(eventSources) + 1
       /\ eventSourceRef' = Len(eventSources')
       /\ ~eventSources'[eventSourceRef'].closed]_vars

(***************************************************************************)
(* C13.  As claimed: after a stage event whose name contains "query" or    *)
(* is "initial_round", the llm nodes and no other are active and no edge   *)
(* is; after one whose name contains "aggregat" or is "improvement_round", *)
(* the aggregator and no other node is active and every edge is; after     *)
(* one whose name is "complete", every node and every edge is active.      *)
(* The three rules read as independent of each other.                      *)
(***************************************************************************)
\* the step applied a stage event whose name is a string
StageApplied ==
  /\ delivered'.type = "stage"
  /\ Decodes(delivered'.data)
  /\ StageName(delivered'.data).t = "string"

ActiveIds(ns) == {ns[i].id : i \in {j \in DOMAIN ns : ns[j].active}}
NodeIds(ns) == {ns[i].id : i \in DOMAIN ns}
LlmIds == {"llm1", "llm2", "llm3"}
EdgesAll(cs, b) == \A i \in DOMAIN cs : cs[i].active = b

QueryActivation(ns, cs) == ActiveIds(ns) = LlmIds /\ EdgesAll(cs, FALSE)
AggregationActivation(ns, cs) ==
  ActiveIds(ns) = {"aggregator"} /\ EdgesAll(cs, TRUE)
CompleteActivation(ns, cs) == ActiveIds(ns) = NodeIds(ns) /\ EdgesAll(cs, TRUE)

C13_StageActivation ==
  [][StageApplied =>
       LET name == StageName(delivered'.data)
       IN /\ IsQueryStage(name) => QueryActivation(nodes', connections')
          /\ IsAggregationStage(name) =>
               AggregationActivation(nodes', connections')
          /\ IsCompleteStage(name) =>
               CompleteActivation(nodes', connections')]_vars

(***************************************************************************)
(* C13, amended.  The rules are tried in order and the first that matches  *)
(* applies: a name that contains "query" (or is "initial_round") gets the  *)
(* activation of a query stage also when it contains "aggregat".           *)
(***************************************************************************)
C13_StageActivationFirstMatch ==
  [][StageApplied =>
       LET name == StageName(delivered'.data)
       IN /\ IsQueryStage(name) => QueryActivation(nodes', connections')
          /\ (~IsQueryStage(name) /\ IsAggregationStage(name)) =>
               AggregationActivation(nodes', connections')
          /\ IsCompleteStage(name) =>
               CompleteActivation(nodes', connections')]_vars

\* a query stage was applied after an aggregation stage: the edges the
\* aggregation stage had switched on are off again
C13_Witness ==
  /\ delivered.type = "stage"
  /\ currentStage = Str(<<"model_", "query">>)
  /\ Len(logs) = 3
  /\ logs[2].message = Msg("Stage: ", Str(<<"aggregat", "ion">>))
  /\ QueryActivation(nodes, connections)

(***************************************************************************)
(* C14.  A stage event whose name matches none of the three rules (a name  *)
(* the policy does not know, no name, a name that is not a string) sets    *)
(* currentStage to the name and appends one info entry; nodes,             *)
(* connections and stats are as before, and the listener completes: a      *)
(* name whose includes() throws is caught after the label was set.         *)
(***************************************************************************)
Unmatched(name) ==
  \/ name.t # "string"
  \/ ~(IsQueryStage(name) \/ IsAggregationStage(name) \/ IsCompleteStage(name))

C14_UnknownStageKeepsActivation ==
  [][(/\ delivered'.type = "stage"
      /\ Decodes(delivered'.data)
      /\ Unmatched(StageName(delivered'.data))) =>
       /\ currentStage' = StageName(delivered'.data)
       /\ Len(Added) = 1
       /\ Added[1].type = "info"
       /\ logs'[1] = Added[1]
       /\ UNCHANGED <<nodes, connections, stats, eventSources,
                      eventSourceRef>>]_vars

\* an unknown stage was applied after a query stage: the llm nodes are
\* still the active ones
C14_Witness ==
  /\ delivered.type = "stage"
  /\ currentStage = Str(<<"custom">>)
  /\ logs[1].message = Msg("Stage: ", Str(<<"custom">>))
  /\ QueryActivation(nodes, connections)

(***************************************************************************)
(* C15.  A model_responses event gives the k-th response that holds a      *)
(* number (k = 1, 2, 3, in entry order) to node llm<k>, whose value         *)
(* becomes the first integer-or-decimal token of that response; a          *)
(* response without a number takes no node, a node without a response      *)
(* keeps its value, and so does the aggregator: responses holding a        *)
(* number beyond the third go nowhere.                                     *)
(***************************************************************************)
HasNumber(e) == \E i \in DOMAIN StringOf(e.v) : StringOf(e.v)[i] \in Digits
Parseable(entries) == SelectSeq(entries, HasNumber)
FirstNumber(e) == ParseFloat(PriceMatch(StringOf(e.v)))

NodeValue(ns, id) == ns[CHOOSE i \in DOMAIN ns : ns[i].id = id].value
LlmId(k) == <<"llm1", "llm2", "llm3">>[k]

ResponsesApplied ==
  delivered'.type = "model_responses" /\ Decodes(delivered'.data)

C15_ResponsesInEncounterOrder ==
  [][ResponsesApplied =>
       LET parseable == Parseable(Entries(Responses(delivered'.data)))
       IN /\ \A k \in 1..3 :
               NodeValue(nodes', LlmId(k)) =
                 IF k <= Len(parseable) THEN FirstNumber(parseable[k])
                 ELSE NodeValue(nodes, LlmId(k))
          /\ NodeValue(nodes', "aggregator") = NodeValue(nodes, "aggregator")
          /\ \A i \in DOMAIN nodes :
               /\ nodes'[i].id = nodes[i].id
               /\ nodes'[i].active = nodes[i].active]_vars

\* four responses with a number were applied, then the three of which the
\* second has none: llm1 and llm2 hold 42.5 and 17, llm3 still holds 3
C15_Witness ==
  /\ delivered.type = "model_responses"
  /\ NodeValue(nodes, "llm1") = Num(425, 1)
  /\ NodeValue(nodes, "llm2") = Num(17, 0)
  /\ NodeValue(nodes, "llm3") = Num(3, 0)
  /\ NodeValue(nodes, "aggregator") = Undefined

(***************************************************************************)
(* C16.  As claimed: a model_responses event none of whose responses       *)
(* holds a number sets no node value; a response whose number is zero      *)
(* stores the value 0 on its llm node; a statistics event whose            *)
(* aggregated_price is zero stores the value 0 on the aggregator node.     *)
(* The statistics listeners test the price for truthiness, and zero is     *)
(* falsy.                                                                  *)
(***************************************************************************)
Zero == Num(0, 0)

StatisticsApplied ==
  /\ delivered'.type \in {"initial_statistics", "final_statistics"}
  /\ Decodes(delivered'.data)

PriceOf(raw) == Get(StatsOf(raw), "aggregated_price")

\* what the claim says of a model_responses step
ResponsesKeepZero ==
  LET parseable == Parseable(Entries(Responses(delivered'.data)))
  IN /\ parseable = <<>> => nodes' = nodes
     /\ \A k \in 1..3 :
          (k <= Len(parseable) /\ FirstNumber(parseable[k]) = Zero)
            => NodeValue(nodes', LlmId(k)) = Zero

\* what the claim says of a statistics step
StatisticsKeepZero ==
  PriceOf(delivered'.data) = Zero => NodeValue(nodes', "aggregator") = Zero

C16_ZeroIsAValue ==
  [][(ResponsesApplied => ResponsesKeepZero)
       /\ (StatisticsApplied => StatisticsKeepZero)]_vars

(***************************************************************************)
(* C17.  As claimed: after a statistics event that carries a number as     *)
(* aggregated_price, the value of the aggregator node and the              *)
(* aggregatedPrice of stats are both that number.                          *)
(***************************************************************************)
C17_AggregatorAgreesWithStats ==
  [][(StatisticsApplied /\ PriceOf(delivered'.data).t = "number") =>
       /\ NodeValue(nodes', "aggregator") = PriceOf(delivered'.data)
       /\ stats'.aggregatedPrice = PriceOf(delivered'.data)]_vars

(***************************************************************************)
(* C18.  A final_statistics event whose payload is the payload of the      *)
(* final_statistics event applied just before it leaves stats              *)
(* (aggregatedPrice, standardDeviation, confidence, finalResult) as that   *)
(* one left it, whatever stats was before the two.                         *)
(***************************************************************************)
C18_FinalStatisticsIdempotent ==
  [][(/\ delivered.type = "final_statistics"
      /\ delivered'.type = "final_statistics"
      /\ delivered'.data = delivered.data) => stats' = stats]_vars

\* on an accumulator holding a result, the payload {aggregated_price: 7}
\* was applied twice
C18_Witness ==
  /\ delivered.type = "final_statistics"
  /\ Len(appended) = 4
  /\ appended[1].message = Msg("Final consensus: $", Fixed(700))
  /\ appended[2].message = Msg("Final consensus: $", Fixed(700))
  /\ appended[3].message.tmpl = "Appraisal complete: $"
  /\ stats.aggregatedPrice = Num(7, 0)
  /\ stats.finalResult # Undefined

(***************************************************************************)
(* C19.  A log event whose payload decodes appends exactly one entry, of   *)
(* severity error when the payload's color is "red", warning when it is    *)
(* "yellow", success when it is "green", and info when it is anything      *)
(* else or the payload has no color.                                       *)
(***************************************************************************)
LogApplied == delivered'.type = "log" /\ Decodes(delivered'.data)

\* the color field as the payload carries it, undefined when it has none
ColorField(raw) == GetOpt(Inner(raw), "color")

C19_SeverityByColor ==
  [][LogApplied =>
       LET color == ColorField(delivered'.data)
       IN /\ Len(Added) = 1
          /\ logs'[1] = Added[1]
          /\ color = Str(<<"red">>) => Added[1].type = "error"
          /\ color = Str(<<"yellow">>) => Added[1].type = "warning"
          /\ color = Str(<<"green">>) => Added[1].type = "success"
          /\ color \notin {Str(<<"red">>), Str(<<"yellow">>), Str(<<"green">>)}
               => Added[1].type = "info"]_vars

\* a log event without a color, then one with the color yellow
C19_Witness ==
  /\ delivered.type = "log"
  /\ Len(logs) = 3
  /\ logs[1].type = "warning"
  /\ logs[2].message = Msg("", Str(<<"plain">>))
  /\ logs[2].type = "info"

(***************************************************************************)
(* C20.  An error event appends entries of severity error only and at      *)
(* least one: when its payload decodes and carries a message, the entry    *)
(* "Error: <message>"; when its payload does not decode, the entry "An     *)
(* error occurred in the appraisal process".  Nodes, connections, stats    *)
(* and currentStage are as before.                                         *)
(***************************************************************************)
ServerMessage(raw) == GetOpt(Inner(raw), "message")

C20_ErrorAlwaysLogged ==
  [][delivered'.type = "error" =>
       /\ Added # <<>>
       /\ \A i \in DOMAIN Added : Added[i].type = "error"
       /\ logs'[1].type = "error"
       /\ IF delivered'.data \in Undecodable
          THEN \E i \in DOMAIN Added :
                 Added[i].message.tmpl =
                   "An error occurred in the appraisal process"
          ELSE Truthy(ServerMessage(delivered'.data)) =>
                 \E i \in DOMAIN Added :
                   Added[i].message =
                     Msg("Error: ", ServerMessage(delivered'.data))
       /\ UNCHANGED <<nodes, connections, stats, currentStage>>]_vars

\* after a complete stage, an error event with the message "boom"
C20_Witness ==
  /\ delivered.type = "error"
  /\ logs[1].message = Msg("Error: ", Str(<<"boom">>))
  /\ logs[1].type = "error"
  /\ currentStage = Str(<<"complete">>)
  /\ CompleteActivation(nodes, connections)

(***************************************************************************)
(* C21.  An event whose type is none of the nine the component binds a     *)
(* listener to leaves nodes, connections, stats, currentStage and the log  *)
(* as they were, and closes no EventSource.                                *)
(***************************************************************************)
C21_UnknownLabelIgnored ==
  [][delivered'.type \notin (RecognizedLabels \cup {"none"}) =>
       UNCHANGED <<nodes, connections, stats, currentStage, logs,
                   eventSources, eventSourceRef>>]_vars

\* a "message" event that carries a stage payload arrived after an
\* initial_round stage: the stage is still initial_round
C21_Witness ==
  /\ delivered.type = "message"
  /\ delivered.data = Data([name |-> Str(<<"complete">>)])
  /\ currentStage = Str(<<"initial_round">>)
  /\ QueryActivation(nodes, connections)
  /\ Live(eventSourceRef)

(***************************************************************************)
(* C22.  When the six events of the end-to-end session have been           *)
(* delivered, every node and every edge is active, aggregatedPrice is      *)
(* 100.5 and confidence 0.8, currentStage is "complete", the log holds     *)
(* the entry of each of the two stage events, every EventSource, the       *)
(* session's own included, is closed and the ref is null.                  *)
(***************************************************************************)
Logged(message) == \E i \in DOMAIN logs : logs[i].message = message

C22_EndToEnd ==
  events = ScenarioLength =>
    /\ CompleteActivation(nodes, connections)
    /\ Len(nodes) = 4 /\ Len(connections) = 3
    /\ stats.aggregatedPrice = Num(1005, 1)
    /\ stats.confidence = Num(8, 1)
    /\ currentStage = Str(<<"complete">>)
    /\ Logged(Msg("Stage: ", Str(<<"initial_round">>)))
    /\ Logged(Msg("Stage: ", Str(<<"complete">>)))
    /\ Handles # {}
    /\ \A c \in Handles : eventSources[c].closed
    /\ eventSourceRef = 0

\* the session has run to its end, and the three llm nodes hold the prices
C22_Witness ==
  /\ events = ScenarioLength
  /\ delivered.type = "process_end"
  /\ logs[1].message.tmpl = "Process completed"
  /\ NodeValue(nodes, "llm1") = Num(425, 1)
  /\ NodeValue(nodes, "llm3") = Num(17, 0)
  /\ NodeValue(nodes, "aggregator") = Num(1005, 1)

(***************************************************************************)
(* C23.  A step creates an EventSource only when contractAddress and       *)
(* tokenId are both present after it, and the EventSource is for that      *)
(* pair; a step after which one of them is absent creates none and does    *)
(* not move currentStage to "connecting".                                  *)
(***************************************************************************)
BothGiven == contractAddress' # "" /\ tokenId' # ""

Opens == Len(eventSources') > Len(eventSources)

C23_OpensOnlyWithBoth ==
  [][/\ Opens => /\ BothGiven
                 /\ eventSources'[Len(eventSources')].url =
                      <<contractAddress', tokenId'>>
     /\ ~BothGiven =>
          /\ ~Opens
          /\ currentStage' = Str(<<"connecting">>) =>
               currentStage = Str(<<"connecting">>)]_vars

\* a session was started and connected, then the token id was taken away:
\* its connection is closed, none was opened, the stage is still "connected"
C23_Witness ==
  /\ phase = "mounted"
  /\ tokenId = ""
  /\ Len(eventSources) = 1
  /\ eventSources[1].closed
  /\ currentStage = Str(<<"connected">>)

(***************************************************************************)
(* C26.  A process_end event appends one entry, of severity success,       *)
(* closes the EventSource it was dispatched at and sets the ref to null;   *)
(* nodes, connections, stats and currentStage are as before.               *)
(***************************************************************************)
C26_ProcessEndClosesOnly ==
  [][delivered'.type = "process_end" =>
       /\ Len(Added) = 1
       /\ Added[1].type = "success"
       /\ logs'[1] = Added[1]
       /\ eventSources'[delivered'.target].closed
       /\ eventSourceRef' = 0
       /\ UNCHANGED <<nodes, connections, stats, currentStage>>]_vars

\* process_end was handled on a connected session
C26_Witness ==
  /\ delivered = Event("process_end", 1, NotJson)
  /\ logs[1].message.tmpl = "Process completed"
  /\ logs[1].type = "success"
  /\ currentStage = Str(<<"connected">>)
  /\ eventSources[1].closed
  /\ eventSourceRef = 0

(***************************************************************************)
(* C27.  Once the component is unmounted, every EventSource it created is  *)
(* closed and the ref is null, whatever the session's state was: open,     *)
(* already closed by process_end, or never started.                        *)
(***************************************************************************)
C27_UnmountClosesConnection ==
  phase = "unmounted" =>
    /\ \A c \in Handles : eventSources[c].closed
    /\ eventSourceRef = 0

\* unmounted after process_end had closed the connection
C27_Witness ==
  /\ phase = "unmounted"
  /\ Handles # {}
  /\ logs # <<>>
  /\ logs[1].message.tmpl = "Process completed"

(***************************************************************************)
(* C24.  In every reachable state the nodes are llm1, llm2, llm3 and       *)
(* aggregator and the edges lead from each llm node to the aggregator:     *)
(* every node and every edge is the initial one but for active and value,  *)
(* and both ends of every edge are ids of nodes.                           *)
(***************************************************************************)
EdgeSet(cs) == {<<cs[i].from, cs[i].to>> : i \in DOMAIN cs}

C24_TopologyFixed ==
  /\ Len(nodes) = 4
  /\ NodeIds(nodes) = {"llm1", "llm2", "llm3", "aggregator"}
  /\ Len(connections) = 3
  /\ EdgeSet(connections) = {<<"llm1", "aggregator">>, <<"llm2", "aggregator">>,
                             <<"llm3", "aggregator">>}
  /\ \A i \in DOMAIN nodes :
       [nodes[i] EXCEPT !.active = FALSE, !.value = Undefined] = InitialNodes[i]
  /\ \A i \in DOMAIN connections :
       /\ [connections[i] EXCEPT !.active = FALSE, !.value = Undefined]
            = InitialConnections[i]
       /\ connections[i].from \in NodeIds(nodes)
       /\ connections[i].to \in NodeIds(nodes)

\* a second session, after its reset, with an active node and a value
C24_Witness ==
  /\ Len(eventSources) = 2
  /\ ActiveIds(nodes) # {}
  /\ NodeValue(nodes, "llm1") # Undefined

(***************************************************************************)
(* C25.  Whatever the label and the payload, an exception raised while a   *)
(* listener runs is raised inside its try block, so none leaves the        *)
(* listener; and no listener but that of process_end closes an             *)
(* EventSource or clears the ref.                                          *)
(***************************************************************************)
\* the stage listener left without its try / catch
InTryButStage(type) == type \in PayloadLabels \ {"stage"}

\* the listener body is wrapped in try / catch
InTry(type) == type \in PayloadLabels

\* an exception is raised while the listeners of the type run on the payload
Throws(type, raw) ==
  CASE type = "stage" -> ~Decodes(raw) \/ StageName(raw).t # "string"
    [] type \in {"initial_statistics", "final_statistics"} ->
         ~Decodes(raw) \/ FormatThrows(Get(StatsOf(raw), "aggregated_price"))
    [] type = "final_result" ->
         ~Decodes(raw) \/ FormatThrows(Get(Or(Inner(raw), EmptyObj), "price"))
    [] type \in {"model_responses", "log", "error"} -> ~Decodes(raw)
    [] OTHER -> FALSE

Escapes(type, raw) == Throws(type, raw) /\ ~InTry(type)

ResultApplied == delivered'.type = "final_result" /\ Decodes(delivered'.data)

ResultOf(raw) == Or(Inner(raw), EmptyObj)

C28_FinalResultStoredAndLogged ==
  [][ResultApplied =>
       /\ stats' = [stats EXCEPT !.finalResult = ResultOf(delivered'.data)]
       /\ Len(Added) = 1
       /\ Added[1].type = "success"
       /\ logs'[1] = Added[1]
       /\ UNCHANGED <<nodes, connections>>]_vars

(***************************************************************************)
(* C29.  While no session was ever started the render does not throw and   *)
(* draws four inactive circles and three inactive lines, each line         *)
(* between the positions of two nodes, no value label, no statistics row,  *)
(* no log row and the "No logs yet" placeholder, under the stage "idle".   *)
(***************************************************************************)
NeverStarted == eventSources = <<>>

EmptyScene(scene) ==
  /\ Len(scene.circles) = 4
  /\ \A i \in DOMAIN scene.circles :
       ~scene.circles[i].active /\ scene.circles[i].label = NoLabel
  /\ Len(scene.lines) = 3
  /\ \A i \in DOMAIN scene.lines :
       /\ ~scene.lines[i].active
       /\ scene.lines[i].label = NoLabel
       /\ \E j, k \in DOMAIN scene.circles :
            /\ scene.circles[j].id = scene.lines[i].from
            /\ scene.circles[k].id = scene.lines[i].to
            /\ scene.lines[i].x1 = scene.circles[j].cx
            /\ scene.lines[i].y1 = scene.circles[j].cy
            /\ scene.lines[i].x2 = scene.circles[k].cx
            /\ scene.lines[i].y2 = scene.circles[k].cy
  /\ \A r \in DOMAIN scene.rows : scene.rows[r] = NoLabel
  /\ scene.log = <<>>
  /\ scene.placeholder
  /\ scene.stage = Str(<<"idle">>)

C29_InitialSceneIsEmpty ==
  NeverStarted =>
    /\ ~RenderThrows(nodes, connections, stats)
    /\ EmptyScene(Scene(nodes, connections, stats, logs, currentStage))

\* the component is mounted without a token id: rendered, no session
C29_Witness ==
  /\ phase = "mounted"
  /\ tokenId = ""
  /\ NeverStarted
  /\ Scene(nodes, connections, stats, logs, currentStage).placeholder

(***************************************************************************)
(* C30.  In every step but the reset that starts a session, the log after  *)
(* the step is the entries the step appended followed by the entries of    *)
(* the log before it, unchanged and in their order; entries are missing    *)
(* at the old end only, and only when the log is at its capacity.          *)
(***************************************************************************)
C30_EntriesImmutable ==
  [][\/ Opens
     \/ LET n == Len(appended') - Len(appended)
            kept == Len(logs') - n
        IN /\ n >= 0
           /\ kept >= 0
           /\ SubSeq(logs', n + 1, Len(logs')) = Take(logs, kept)
           /\ kept < Len(logs) => Len(logs') = LogCapacity]_vars

\* the "Connecting" entry has left a full log, and the oldest entry kept
\* still bears a time before that of the newest
C30_Witness ==
  /\ Len(appended) = LogCapacity + 1
  /\ Len(logs) = LogCapacity
  /\ \A i \in DOMAIN logs :
       logs[i].message.tmpl = "Connected to appraisal stream"
  /\ logs[LogCapacity].timestamp < logs[1].timestamp

(***************************************************************************)
(* C31.  Within a session the state is a function of the events applied,   *)
(* in their order.  The listeners (lines 127-356) read as one reducer:     *)
(* Reduce(s, label, raw) is the state a listener leaves when an event      *)
(* with that label and payload is dispatched in state s, and it reads      *)
(* nothing but s, the label and the payload.  Every step that dispatches   *)
(* an event takes nodes, connections, stats, currentStage and the log      *)
(* (messages and severities, timestamps set aside) from s to               *)
(* Reduce(s, label, payload), whatever the clock reads; the step that      *)
(* starts a session leaves the state SessionStart of its pair; every       *)
(* other step leaves the five unchanged.  So two runs of the same events   *)
(* from session start end in the same state.  Checked under SpecOrder.     *)
(***************************************************************************)
Reducer(ns, cs, st, stage, lg) ==
  [nodes |-> ns, connections |-> cs, stats |-> st, currentStage |-> stage,
   logs |-> lg]

\* message and severity of every entry, the timestamps left out
Untimed(s) ==
  [s EXCEPT !.logs = [i \in DOMAIN @ |->
                        [message |-> @[i].message, type |-> @[i].type]]]

\* the reset and the "Connecting" entry (lines 98-116)
SessionStart(ca, tid) ==
  Reducer(ResetNodes(InitialNodes), ResetConnections(InitialConnections),
          EmptyStats, Str(<<"connecting">>),
          addLog(<<>>, ConnectingMsg(ca, tid), "info"))

ReduceStatistics(s, raw, tmpl, type) ==
  IF ~Decodes(raw) THEN s
  ELSE LET price == Get(StatsOf(raw), "aggregated_price")
       IN [s EXCEPT !.stats = MergeStats(@, StatsOf(raw)),
                    !.nodes = AggregatorValue(@, price),
                    !.logs = IF FormatThrows(price) THEN @
                             ELSE addLog(@, Msg(tmpl, Format(price)), type)]

Reduce(s, label, raw) ==
  CASE label = "connect" ->
         [s EXCEPT !.currentStage = Str(<<"connected">>),
                   !.logs = addLog(@, Msg("Connected to appraisal stream",
                                          Undefined), "success")]
    [] label = "stage" ->
         IF ~Decodes(raw) THEN s
         ELSE [s EXCEPT !.currentStage = StageName(raw),
                        !.logs = addLog(@, Msg("Stage: ",
                                               Or(StageDescription(raw),
                                                  StageName(raw))), "info"),
                        !.nodes = StageNodes(StageName(raw), @),
                        !.connections = StageConnections(StageName(raw), @)]
    [] label = "model_responses" ->
         IF ~Decodes(raw) THEN s
         ELSE LET nodeUpdates == NodeUpdates(Entries(Responses(raw)), <<>>)
              IN [s EXCEPT !.nodes = [i \in DOMAIN @ |->
                                        IF LlmIndex(@[i].id) \in DOMAIN nodeUpdates
                                        THEN [@[i] EXCEPT !.value =
                                                nodeUpdates[LlmIndex(s.nodes[i].id)]]
                                        ELSE @[i]],
                           !.logs = addLog(@, ResponsesMsg(raw), "info")]
    [] label = "initial_statistics" ->
         ReduceStatistics(s, raw, "Initial consensus: $", "info")
    [] label = "final_statistics" ->
         ReduceStatistics(s, raw, "Final consensus: $", "success")
    [] label = "final_result" ->
         IF ~Decodes(raw) THEN s
         ELSE LET result == Or(Inner(raw), EmptyObj)
                  price == Get(result, "price")
              IN [s EXCEPT !.stats = [@ EXCEPT !.finalResult = result],
                           !.logs = IF FormatThrows(price) THEN @
                                    ELSE addLog(@, Msg("Appraisal complete: $",
                                                       Format(price)), "success")]
    [] label = "log" ->
         IF ~Decodes(raw) THEN s
         ELSE [s EXCEPT !.logs = addLog(@, LogMessage(raw),
                                        LogType(LogColor(raw)))]
    [] label = "error" ->
         [s EXCEPT !.logs = addLog(addLog(@, ConnectionErrorMsg, "error"),
                                   ErrorListenerMsg(raw), "error")]
    [] label = "process_end" ->
         [s EXCEPT !.logs = addLog(@, Msg("Process completed", Undefined),
                                   "success")]
    [] OTHER -> s

C31_StateIsFunctionOfEvents ==
  [][LET before == Reducer(nodes, connections, stats, currentStage, logs)
         after == Reducer(nodes', connections', stats', currentStage', logs')
     IN IF delivered'.type # "none"
        THEN Untimed(after) =
               Untimed(Reduce(before, delivered'.type, delivered'.data))
        ELSE IF Opens
        THEN Untimed(after) = Untimed(SessionStart(contractAddress', tokenId'))
        ELSE after = before]_vars

\* a connect event and then a stage event were applied, at different times
C31_Witness ==
  /\ events = 2
  /\ delivered.type = "stage"
  /\ Len(logs) = 3
  /\ logs[2].message.tmpl = "Connected to appraisal stream"
  /\ logs[1].timestamp > logs[2].timestamp
  /\ currentStage = Str(<<"complete">>)

(***************************************************************************)
(* C32.  A stage event whose payload decodes and carries no name (no data  *)
(* object, no name field, a name that is null or the empty string) sets    *)
(* currentStage to "unknown" and appends one info entry, which tells the   *)
(* description when there is one and "unknown" otherwise; the active flag  *)
(* of every node and of every edge is as before.  Checked under SpecStage. *)
(***************************************************************************)
Nameless(raw) == Decodes(raw) /\ ~Truthy(GetOpt(Inner(raw), "name"))

ActiveFlags(xs) == [i \in DOMAIN xs |-> xs[i].active]

C32_NamelessStageIsUnknown ==
  [][(delivered'.type = "stage" /\ Nameless(delivered'.data)) =>
       /\ currentStage' = Str(<<"unknown">>)
       /\ Len(Added) = 1
       /\ Added[1].type = "info"
       /\ Added[1].message =
            Msg("Stage: ", Or(GetOpt(Inner(delivered'.data), "description"),
                              Str(<<"unknown">>)))
       /\ logs'[1] = Added[1]
       /\ ActiveFlags(nodes') = ActiveFlags(nodes)
       /\ ActiveFlags(connections') = ActiveFlags(connections)]_vars

\* a stage event with a description and no name was applied after the stage
\* complete: every node and edge is still active
C32_Witness ==
  /\ delivered.type = "stage"
  /\ delivered.data = Data([description |-> Str(<<"no name">>)])
  /\ currentStage = Str(<<"unknown">>)
  /\ logs[1].message = Msg("Stage: ", Str(<<"no name">>))
  /\ \A i \in DOMAIN nodes : nodes[i].active
  /\ \A i \in DOMAIN connections : connections[i].active

(***************************************************************************)
(* C33.  Every event of type "error", whether it carries a payload (sent   *)
(* by the server) or none (a transport failure), runs onerror and then     *)
(* the error listener: the step appends exactly two entries, both of       *)
(* severity error, first "Connection error with streaming API" and then    *)
(* the error listener's message, and they are the two newest of the log.   *)
(* Checked under SpecMalformed.                                            *)
(***************************************************************************)
C33_ErrorEventLogsTwice ==
  [][delivered'.type = "error" =>
       /\ Len(Added) = 2
       /\ Added[2] = Entry(ConnectionErrorMsg, "error")
       /\ Added[1] = Entry(ErrorListenerMsg(delivered'.data), "error")
       /\ Take(logs', 2) = Added]_vars

\* a transport failure and then an error event sent by the server: four
\* error entries after the "Connecting" one
C33_Witness ==
  /\ delivered.type = "error"
  /\ Decodes(delivered.data)
  /\ Len(logs) = 5
  /\ logs[4].message = ConnectionErrorMsg
  /\ logs[3].message = Msg("An error occurred in the appraisal process", Undefined)
  /\ logs[2].message = ConnectionErrorMsg
  /\ logs[1].message.tmpl = "Error: "
  /\ \A i \in 1..4 : logs[i].type = "error"

(***************************************************************************)
(* C34.  When the pair changes, while a session's cleanup is registered,   *)
(* to a pair with contractAddress or tokenId absent, the step closes the   *)
(* session's EventSource and clears the handle, opens nothing, and leaves  *)
(* nodes, connections, stats, logs and currentStage as the session left    *)
(* them.  Checked under SpecSessions.                                      *)
(***************************************************************************)
LosesPair ==
  /\ cleanup # 0
  /\ <<contractAddress', tokenId'>> # <<contractAddress, tokenId>>
  /\ ~BothGiven

C34_LosingPairKeepsState ==
  [][LosesPair =>
       /\ eventSources'[cleanup].closed
       /\ eventSourceRef' = 0
       /\ cleanup' = 0
       /\ ~Opens
       /\ UNCHANGED reducerState]_vars

\* the token id was taken away after initial statistics and the stage
\* complete: the connection is closed, the price, the activation and the
\* three log entries are still there
C34_Witness ==
  /\ phase = "mounted"
  /\ tokenId = ""
  /\ Len(eventSources) = 1
  /\ eventSources[1].closed
  /\ eventSourceRef = 0
  /\ cleanup = 0
  /\ stats.aggregatedPrice = Num(1005, 1)
  /\ NodeValue(nodes, "aggregator") = Num(1005, 1)
  /\ \A i \in DOMAIN connections : connections[i].active
  /\ currentStage = Str(<<"complete">>)
  /\ Len(logs) = 3

(***************************************************************************)
(* C35.  While a session has been started and no event has been           *)
(* dispatched in it, currentStage is "connecting", the log holds one       *)
(* entry, the info entry "Connecting to appraisal stream for <pair>...",   *)
(* every node and every edge is inactive and without value, and stats is   *)
(* empty, whatever the session before left behind.                         *)
(***************************************************************************)
JustStarted == cleanup # 0 /\ events = 0

C35_SessionStartState ==
  JustStarted =>
    /\ currentStage = Str(<<"connecting">>)
    /\ Len(logs) = 1
    /\ logs[1].type = "info"
    /\ logs[1].message = ConnectingMsg(contractAddress, tokenId)
    /\ \A i \in DOMAIN nodes :
         ~nodes[i].active /\ nodes[i].value = Undefined
    /\ \A i \in DOMAIN connections :
         ~connections[i].active /\ connections[i].value = Undefined
    /\ stats = EmptyStats

\* the second session of a run has just been started, for another contract
C35_Witness ==
  /\ JustStarted
  /\ cleanup = 2
  /\ eventSources[1].closed
  /\ eventSources[1].url # eventSources[2].url
  /\ logs = <<Entry(ConnectingMsg("0xB", "1"), "info")>>

(***************************************************************************)
(* C36.  The query rule is tried before the aggregation rule: after a      *)
(* stage event whose name contains both "query" and "aggregat", in either  *)
(* order, the llm nodes are the active nodes and every edge is inactive,   *)
(* whatever the activation before it.  (No name matches the complete rule  *)
(* and another rule, so this is the one case in which the order shows.)    *)
(* Checked under SpecStage.                                                *)
(***************************************************************************)
BothKeywords(name) ==
  name.t = "string" /\ Includes(name.s, "query") /\ Includes(name.s, "aggregat")

C36_QueryRuleFirst ==
  (/\ delivered.type = "stage"
   /\ Decodes(delivered.data)
   /\ BothKeywords(StageName(delivered.data))) =>
    /\ ActiveIds(nodes) = LlmIds
    /\ \A i \in DOMAIN connections : ~connections[i].active

\* a stage named "aggregate_query" was applied after the stage complete, at
\* which the aggregator and the edges were active
C36_Witness ==
  /\ events = 2
  /\ delivered.type = "stage"
  /\ delivered.data = Data([name |-> Str(<<"aggregat", "e_", "query">>)])
  /\ Len(logs) = 3
  /\ logs[2].message = Msg("Stage: ", Str(<<"complete">>))
  /\ ActiveIds(nodes) = LlmIds
  /\ currentStage = Str(<<"aggregat", "e_", "query">>)

(***************************************************************************)
(* C37.  Activation and values are written by different events.  A stage   *)
(* event leaves the value of every node and the whole of stats as they     *)
(* were; a connect, model_responses, initial_statistics,                   *)
(* final_statistics, final_result, log or error event leaves the active    *)
(* flag of every node and of every edge as it was.  Checked under          *)
(* SpecOrder.                                                              *)
(***************************************************************************)
Values(xs) == [i \in DOMAIN xs |-> xs[i].value]

ValueEvents ==
  {"connect", "model_responses", "initial_statistics", "final_statistics",
   "final_result", "log", "error"}

StageKeepsValues ==
  delivered'.type = "stage" =>
    Values(nodes') = Values(nodes) /\ stats' = stats

ValueEventsKeepActivation ==
  delivered'.type \in ValueEvents =>
    /\ ActiveFlags(nodes') = ActiveFlags(nodes)
    /\ ActiveFlags(connections') = ActiveFlags(connections)

C37_ActivationAndValuesIndependent ==
  [][StageKeepsValues /\ ValueEventsKeepActivation]_vars

\* initial statistics were applied after the stage initial_round: the
\* aggregator has its value and is still inactive, the llm nodes still
\* active
C37_Witness ==
  /\ delivered.type = "initial_statistics"
  /\ lastStage = Str(<<"initial_round">>)
  /\ NodeValue(nodes, "aggregator") = Num(1005, 1)
  /\ ActiveIds(nodes) = LlmIds
  /\ stats.aggregatedPrice = Num(1005, 1)

(***************************************************************************)
(* C38.  In every reachable state the value of each of the three edges is  *)
(* unset: the initial state and the reset leave it undefined and no        *)
(* listener writes it.                                                     *)
(***************************************************************************)
C38_EdgesHaveNoValue ==
  /\ Len(connections) = 3
  /\ \A i \in DOMAIN connections : connections[i].value = Undefined

\* the stage complete and initial statistics were applied: the edges are
\* active, the aggregator has a value, the edges have none
C38_Witness ==
  /\ events = 2
  /\ \A i \in DOMAIN connections : connections[i].active
  /\ NodeValue(nodes, "aggregator") = Num(1005, 1)
  /\ \A i \in DOMAIN connections : connections[i].value = Undefined

(***************************************************************************)
(* C39.  Within a session a node value is overwritten or kept, never       *)
(* cleared: in every step but the reset that starts a session, a node      *)
(* that has a value has one after the step; and a model_responses event    *)
(* with k responses that hold a number (k < 3) leaves the values of the    *)
(* llm nodes after the k-th, and of the aggregator, as they were.          *)
(* Checked under SpecValues.                                               *)
(***************************************************************************)
HasValue(node) == ~Nullish(node.value)

SetStaysSet ==
  \A i \in DOMAIN nodes : HasValue(nodes[i]) => HasValue(nodes'[i])

FewerResponsesKeepTheRest ==
  ResponsesApplied =>
    LET k == Len(Parseable(Entries(Responses(delivered'.data))))
    IN \A i \in DOMAIN nodes :
         LlmIndex(nodes[i].id) \notin 1..k => nodes'[i].value = nodes[i].value

C39_ValuesNeverCleared ==
  [][~Opens => (SetStaysSet /\ FewerResponsesKeepTheRest)]_vars

\* four responses with a number were applied, then a single response "0":
\* llm1 holds 0, llm2 and llm3 still hold 2 and 3
C39_Witness ==
  /\ delivered.type = "model_responses"
  /\ delivered.data = Data([responses |-> Map(<<Response("m1", Str(<<"0">>))>>)])
  /\ NodeValue(nodes, "llm1") = Num(0, 0)
  /\ NodeValue(nodes, "llm2") = Num(2, 0)
  /\ NodeValue(nodes, "llm3") = Num(3, 0)

(***************************************************************************)
(* C40.  In every reachable state eventSourceRef is null or it is the      *)
(* EventSource created last, and when it is not null that EventSource is   *)
(* open: process_end, the cleanup of a parameter change and the cleanup    *)
(* of the unmount null the handle in the step that closes.                 *)
(***************************************************************************)
C40_HandleIsNullOrLatestOpen ==
  /\ eventSourceRef \in {0, Len(eventSources)}
  /\ eventSourceRef # 0 => ~eventSources[eventSourceRef].closed

\* in the second session an error event was handled: the handle is still
\* the second EventSource, which is open, and the first is closed
C40_Witness ==
  /\ Len(eventSources) = 2
  /\ eventSourceRef = 2
  /\ delivered.type = "error"
  /\ delivered.target = 2
  /\ eventSources[1].closed
  /\ ~eventSources[2].closed

====
